---- MODULE Spec2Model ----
(***************************************************************************)
(* KantoCollect WhatNot sales tracking: the COGS rule matcher, the COGS    *)
(* application engine, the bulk save-product-COGS operation and the        *)
(* product-catalog view, modelled from                                     *)
(*   backend/app/services/whatnot/cogs_service.py                          *)
(*   backend/app/services/whatnot/import_service.py                        *)
(*   backend/app/api/v1/admin/whatnot.py                                   *)
(*   backend/app/models/whatnot.py                                         *)
(*                                                                         *)
(* Text is a sequence of one-character strings.  Money is an integer       *)
(* number of currency units.  A nullable column is a sequence of length    *)
(* zero (NULL) or one (the value).                                         *)
(***************************************************************************)
EXTENDS Integers, Sequences, FiniteSets, TLC

VARIABLES
    mRules,      \* matcher run: the cogs_mapping_rules table, in insertion order
    mName,       \* matcher run: the raw item name
    mResult,     \* matcher run: the tuple match_cogs_rule returned
    mPc,         \* matcher run: "start" before the call, "done" after
    txns,        \* the sales_transactions table: id -> row
    rules,       \* the cogs_mapping_rules table, in insertion (id) order
    shows,       \* the whatnot_shows table: id -> row
    last,        \* the last request served: its name, arguments and the ids
                 \* of the transactions it wrote COGS to
    catalog,     \* the product_catalog table: id -> row
    view,        \* the response of GET /product-catalog when it was the last
                 \* request served, NoView otherwise
    master_cards,    \* the master_cards table of the inventory database
    inventory_items, \* the inventory_items table of the inventory database
    sessions     \* the storage sessions of the requests in progress: what
                 \* each has loaded and whether it holds the write lock

mvars == <<mRules, mName, mResult, mPc>>
dbvars == <<txns, rules, shows, last, catalog, view>>
ivars == <<master_cards, inventory_items>>
svars == <<sessions>>
vars == <<mRules, mName, mResult, mPc, txns, rules, shows, last, catalog, view,
          master_cards, inventory_items, sessions>>

----------------------------------------------------------------------------
(* Bounds *)

MaxRules == 2        \* rows in cogs_mapping_rules in a matcher run
MaxPriority == 2     \* rule priorities are 1..MaxPriority
MaxTextLen == 3      \* longest keyword and item name of a normalization run
DecimalDigits == 4   \* fractional digits a Decimal quotient keeps
MaxRequests == 4     \* requests served in a run of the admin API
MaxShows == 1        \* shows imported in a run of the admin API
MaxEntries == 2      \* rows in product_catalog at the start of a catalog run

----------------------------------------------------------------------------
(* Nullable values *)

None == <<>>
Some(v) == <<v>>
IsNone(x) == x = <<>>
Val(x) == x[1]

----------------------------------------------------------------------------
(* Text *)

Whitespace == {" ", "\t"}
LowerLetters == {"a", "b", "c", "x"}
UpperLetters == {"A", "B", "C", "X"}
Digits == {"1", "2"}
Hyphen == {"-"}

\* str.lower() on one character
LowerChar(c) ==
    CASE c = "A" -> "a"
      [] c = "B" -> "b"
      [] c = "C" -> "c"
      [] c = "X" -> "x"
      [] OTHER -> c

\* str.lower()
Lower(s) == [i \in 1..Len(s) |-> LowerChar(s[i])]

RECURSIVE LStrip(_)
LStrip(s) ==
    IF s = <<>> THEN <<>>
    ELSE IF Head(s) \in Whitespace THEN LStrip(Tail(s)) ELSE s

RECURSIVE RStrip(_)
RStrip(s) ==
    IF s = <<>> THEN <<>>
    ELSE IF s[Len(s)] \in Whitespace THEN RStrip(SubSeq(s, 1, Len(s) - 1)) ELSE s

\* str.strip()
Strip(s) == RStrip(LStrip(s))

\* the character class [a-z0-9\s\-] of the regular expression
KeptChar(c) == c \in LowerLetters \cup Digits \cup Whitespace \cup Hyphen

\* re.sub(r'[^a-z0-9\s\-]', '', s)
RemoveSpecial(s) == SelectSeq(s, KeptChar)

\* str.split(): the maximal runs of non-whitespace characters
RECURSIVE SplitWords(_, _)
SplitWords(s, cur) ==
    IF s = <<>> THEN (IF cur = <<>> THEN <<>> ELSE <<cur>>)
    ELSE IF Head(s) \in Whitespace
         THEN (IF cur = <<>> THEN SplitWords(Tail(s), <<>>)
               ELSE <<cur>> \o SplitWords(Tail(s), <<>>))
         ELSE SplitWords(Tail(s), Append(cur, Head(s)))

\* ' '.join(words)
RECURSIVE JoinWords(_)
JoinWords(ws) ==
    IF ws = <<>> THEN <<>>
    ELSE IF Len(ws) = 1 THEN ws[1]
    ELSE ws[1] \o <<" ">> \o JoinWords(Tail(ws))

\* the normalizer without its last statement
normalize_product_name_NoCollapse(name) ==
    RemoveSpecial(Strip(Lower(name)))

normalize_product_name(name) ==
    LET lowered  == Strip(Lower(name))
        filtered == RemoveSpecial(lowered)
    IN  JoinWords(SplitWords(filtered, <<>>))

\* Python's "k in s" on strings
Contains(s, k) ==
    \E i \in 0..(Len(s) - Len(k)) : SubSeq(s, i + 1, i + Len(k)) = k

\* s.startswith(k)
StartsWith(s, k) == Len(k) <= Len(s) /\ SubSeq(s, 1, Len(k)) = k

\* s.endswith(k)
EndsWith(s, k) ==
    Len(k) <= Len(s) /\ SubSeq(s, Len(s) - Len(k) + 1, Len(s)) = k

----------------------------------------------------------------------------
(* COGS rule matcher *)

MatchType == {"contains", "starts_with", "ends_with", "exact"}

\* one iteration of the keyword loop of match_cogs_rule
KeywordMatches(rule, keyword, normalized_product_name) ==
    LET keyword_normalized == Strip(Lower(keyword))
    IN  CASE rule.match_type = "contains" ->
               Contains(normalized_product_name, keyword_normalized)
          [] rule.match_type = "starts_with" ->
               StartsWith(normalized_product_name, keyword_normalized)
          [] rule.match_type = "ends_with" ->
               EndsWith(normalized_product_name, keyword_normalized)
          [] rule.match_type = "exact" ->
               normalized_product_name = keyword_normalized
          [] OTHER -> FALSE

\* the inner loop: some keyword of the rule returns
RuleMatches(rule, normalized_product_name) ==
    \E i \in 1..Len(rule.keywords) :
        KeywordMatches(rule, rule.keywords[i], normalized_product_name)

\* the row sequences a query of the rows in S with ORDER BY priority DESC
\* may return: rows of equal priority come in an order the storage chooses
OrderedByPriorityDesc(S) ==
    {ord \in [1..Cardinality(S) -> S] :
        /\ \A i, j \in 1..Cardinality(S) : i # j => ord[i] # ord[j]
        /\ \A i, j \in 1..Cardinality(S) :
              i < j => ord[i].priority >= ord[j].priority}

Range(f) == {f[i] : i \in DOMAIN f}

\* the query without its ORDER BY clause: the active rows in any order
ActiveRulesQuery_NoOrderBy(ruleTable) ==
    LET S == {r \in Range(ruleTable) : r.is_active}
    IN  {ord \in [1..Cardinality(S) -> S] :
            \A i, j \in 1..Cardinality(S) : i # j => ord[i] # ord[j]}

\* the query without its WHERE clause: every row, by priority
ActiveRulesQuery_NoWhere(ruleTable) == OrderedByPriorityDesc(Range(ruleTable))

\* select(COGSMappingRule).where(is_active == True).order_by(priority.desc())
ActiveRulesQuery(ruleTable) ==
    OrderedByPriorityDesc({r \in Range(ruleTable) : r.is_active})

\* the loop of match_cogs_rule over the rows the query returned
RECURSIVE MatchLoop(_, _)
MatchLoop(rows, normalized_product_name) ==
    IF rows = <<>> THEN <<None, None>>
    ELSE IF RuleMatches(Head(rows), normalized_product_name)
         THEN <<Some(Head(rows).id), Some(Head(rows).cogs_amount)>>
         ELSE MatchLoop(Tail(rows), normalized_product_name)

\* toggle_cogs_rule: flip is_active of the row with this id; 404 leaves the table
toggle_cogs_rule(ruleTable, rule_id) ==
    [i \in DOMAIN ruleTable |->
        IF ruleTable[i].id = rule_id
        THEN [ruleTable[i] EXCEPT !.is_active = ~ruleTable[i].is_active]
        ELSE ruleTable[i]]

\* the set of tuples match_cogs_rule may return
match_cogs_rule(ruleTable, normalized_product_name) ==
    {MatchLoop(rows, normalized_product_name) : rows \in ActiveRulesQuery(ruleTable)}

----------------------------------------------------------------------------
(* COGS application engine *)

RECURSIVE Pow10(_)
Pow10(n) == IF n = 0 THEN 1 ELSE 10 * Pow10(n - 1)

\* Decimal division a / b for b > 0, rounded half-even to DecimalDigits
\* fractional digits; the result counts units of 10^-DecimalDigits
DecimalDiv(a, b) ==
    LET n == a * Pow10(DecimalDigits)
        q == n \div b
        r == n % b
    IN  IF 2 * r < b THEN q
        ELSE IF 2 * r > b THEN q + 1
        ELSE IF q % 2 = 0 THEN q ELSE q + 1

\* (net_profit / cogs) * Decimal("100"), in units of 10^-DecimalDigits
RoiPercent(net_profit, cogs) == DecimalDiv(net_profit, cogs) * 100

\* apply_cogs_to_transaction with the per-unit cost taken as the line total
apply_cogs_to_transaction_NoQuantity(transaction, cogs_per_unit, rule_id) ==
    LET total_cogs == cogs_per_unit
        net_profit == transaction.net_earnings - total_cogs
    IN  [transaction EXCEPT
            !.cogs = Some(total_cogs),
            !.matched_cogs_rule_id = rule_id,
            !.net_profit = Some(net_profit),
            !.roi_percent = IF total_cogs > 0
                            THEN Some(RoiPercent(net_profit, total_cogs))
                            ELSE None]

\* apply_cogs_to_transaction: rule_id is nullable
apply_cogs_to_transaction(transaction, cogs_per_unit, rule_id) ==
    LET total_cogs == cogs_per_unit * transaction.quantity
        net_profit == transaction.net_earnings - total_cogs
    IN  [transaction EXCEPT
            !.cogs = Some(total_cogs),
            !.matched_cogs_rule_id = rule_id,
            !.net_profit = Some(net_profit),
            !.roi_percent = IF total_cogs > 0
                            THEN Some(RoiPercent(net_profit, total_cogs))
                            ELSE None]

\* a sales_transactions row as the import creates it, before COGS matching
NewTransaction(id, show_id, sale_type, item_name, quantity, net_earnings) ==
    [id |-> id, show_id |-> show_id, sale_type |-> sale_type,
     item_name |-> item_name, quantity |-> quantity,
     net_earnings |-> net_earnings,
     cogs |-> None, net_profit |-> None, roi_percent |-> None,
     matched_cogs_rule_id |-> None,
     catalog_item_id |-> None, is_mapped |-> FALSE,
     matched_keyword |-> None, mapped_at |-> None]

\* the state of the tables and of the last request when nothing is stored
\* before is the row the request named as it was when the request arrived,
\* result the tuple match_cogs_rule gave it, status the HTTP status it sent
NoLast ==
    [op |-> "none", args |-> <<>>, touched |-> {}, n |-> 0, twice |-> FALSE,
     before |-> <<>>, result |-> <<>>, status |-> 0]
NoView == [computed |-> FALSE, matches |-> <<>>, sales |-> <<>>]
CatalogIdle ==
    /\ catalog = <<>>
    /\ view = NoView
\* the inventory database with nothing stored
InventoryIdle ==
    /\ master_cards = <<>>
    /\ inventory_items = <<>>
\* no request in progress
SessionsIdle == sessions = <<>>
DbIdle ==
    /\ txns = <<>>
    /\ rules = <<>>
    /\ shows = <<>>
    /\ last = NoLast
    /\ CatalogIdle
    /\ InventoryIdle
    /\ SessionsIdle

MIdle ==
    /\ mRules = <<>>
    /\ mName = <<>>
    /\ mResult = <<None, None>>
    /\ mPc = "idle"

----------------------------------------------------------------------------
(* Application runs: one stored transaction, drawn with any earlier COGS    *)
(* values on it, and one call of apply_cogs_to_transaction.                 *)

AQuantities == {0, 1, 2, 3}
ANetEarnings == {-5, 0, 28, 45}
AUnitCosts == {0, 10, 15}
ARuleIds == {None, Some(5)}
\* values the COGS columns may hold from an earlier operation
AEarlier == {None, Some(0), Some(20)}

ATransactions ==
    {[NewTransaction(1, Some(1), "stream", <<"a">>, q, ne) EXCEPT
         !.cogs = c, !.net_profit = np, !.roi_percent = roi,
         !.matched_cogs_rule_id = m] :
       q \in AQuantities, ne \in ANetEarnings, c \in AEarlier,
       np \in AEarlier, roi \in AEarlier, m \in {None, Some(7)}}

AInit ==
    /\ MIdle
    /\ \E t \in ATransactions : txns = <<t>>
    /\ rules = <<>>
    /\ shows = <<>>
    /\ last = NoLast
    /\ CatalogIdle
    /\ InventoryIdle
    /\ SessionsIdle

AApply ==
    /\ last.op = "none"
    /\ \E cogs_per_unit \in AUnitCosts : \E rule_id \in ARuleIds :
          /\ txns' = [txns EXCEPT ![1] =
                         apply_cogs_to_transaction(txns[1], cogs_per_unit, rule_id)]
          /\ last' = [NoLast EXCEPT !.op = "apply",
                                     !.args = <<cogs_per_unit, rule_id>>,
                                     !.touched = {1}, !.n = 1,
                                     !.before = txns[1]]
    /\ UNCHANGED <<rules, shows, catalog, view, mvars, ivars, svars>>

ANext == AApply

SpecApply == AInit /\ [][ANext]_vars

----------------------------------------------------------------------------
(* Matcher runs: a rule table and an item name are drawn, the name is       *)
(* normalized as the import and recalculate paths do, and match_cogs_rule   *)
(* is called once.                                                          *)

\* keyword lists of the drawn rules: "B", and the two keywords "c", " ab"
MKeywordLists == { << <<"B">> >>, << <<"c">>, <<" ", "a", "b">> >> }

\* raw item names: "ab", "A.bx", "xab", "b"
MNames == { <<"a", "b">>, <<"A", ".", "b", "x">>, <<"x", "a", "b">>, <<"b">> }

\* the row stored with primary key id (ids follow insertion order); a rule
\* is created active and switched off and on by toggle_cogs_rule
MRuleRows(id) ==
    [id : {id}, keywords : MKeywordLists, cogs_amount : {10 * id},
     match_type : MatchType, priority : 1..MaxPriority, is_active : {TRUE}]

MRuleTables ==
    {tbl \in [1..MaxRules -> UNION {MRuleRows(i) : i \in 1..MaxRules}] :
        \A i \in 1..MaxRules : tbl[i].id = i}

MInit ==
    /\ DbIdle
    /\ mRules \in MRuleTables
    /\ mName \in MNames
    /\ mResult = <<None, None>>
    /\ mPc = "start"

\* POST /cogs-rules/{rule_id}/toggle before the item is matched
MToggle ==
    /\ mPc = "start"
    /\ \E rule_id \in 1..MaxRules : mRules' = toggle_cogs_rule(mRules, rule_id)
    /\ UNCHANGED <<mName, mResult, mPc, dbvars, ivars, svars>>

\* the import and recalculate paths: normalize the item name, then match
MMatch ==
    /\ mPc = "start"
    /\ mResult' \in match_cogs_rule(mRules, normalize_product_name(mName))
    /\ mPc' = "done"
    /\ UNCHANGED <<mRules, mName, dbvars, ivars, svars>>

MNext == MToggle \/ MMatch

SpecMatch == MInit /\ [][MNext]_vars

----------------------------------------------------------------------------
(* Normalization runs: one active contains-mode rule with one keyword, and  *)
(* an item name, both drawn from every text up to MaxTextLen characters.    *)

NAlphabet == {"a", "A", "b", ".", " "}

NTexts == UNION {[1..n -> NAlphabet] : n \in 0..MaxTextLen}

NInit ==
    /\ DbIdle
    /\ \E kw \in NTexts :
          mRules = << [id |-> 1, keywords |-> <<kw>>, cogs_amount |-> 10,
                       match_type |-> "contains", priority |-> 1,
                       is_active |-> TRUE] >>
    /\ mName \in NTexts
    /\ mResult = <<None, None>>
    /\ mPc = "start"

NNext == MMatch

SpecNorm == NInit /\ [][NNext]_vars

----------------------------------------------------------------------------
(* Normalizer runs: a raw name is drawn, normalize_product_name is called   *)
(* on it, and called again on what it returned.                             *)

\* letters of both cases, a digit, the hyphen, punctuation, blank and tab
ZAlphabet == {"a", "A", "1", "-", ".", " ", "\t"}

\* longer names: "a . b", " B-2!a ", "x\t\t.1"
ZLongNames ==
    { <<"a", " ", ".", " ", "b">>,
      <<" ", "B", "-", "2", "!", "a", " ">>,
      <<"x", "\t", "\t", ".", "1">> }

ZNames == UNION {[1..n -> ZAlphabet] : n \in 0..MaxTextLen} \cup ZLongNames

\* mName is the argument of the call, mResult what it returned
ZInit ==
    /\ DbIdle
    /\ mRules = <<>>
    /\ mName \in ZNames
    /\ mResult = <<None, None>>
    /\ mPc = "start"

\* normalized = normalize_product_name(raw_name)
ZNormalize ==
    /\ mPc = "start"
    /\ mResult' = normalize_product_name(mName)
    /\ mPc' = "once"
    /\ UNCHANGED <<mRules, mName, dbvars, ivars, svars>>

\* the normalizer called on its own result
ZNormalizeAgain ==
    /\ mPc = "once"
    /\ mName' = mResult
    /\ mResult' = normalize_product_name(mResult)
    /\ mPc' = "twice"
    /\ UNCHANGED <<mRules, dbvars, ivars, svars>>

ZNext == ZNormalize \/ ZNormalizeAgain

SpecNormalize == ZInit /\ [][ZNext]_vars

----------------------------------------------------------------------------
(* The tables and the requests of the admin API *)

Max(S) == CHOOSE x \in S : \A y \in S : y <= x

\* the primary key the storage gives a new row: one more than the largest
NextId(ids) == IF ids = {} THEN 1 ELSE Max(ids) + 1

RuleIds(ruleTable) == {ruleTable[i].id : i \in DOMAIN ruleTable}

\* where(or_(show_id != None, sale_type == 'marketplace')): every
\* transaction but the test bucket
InScope(t) == t.show_id # None \/ t.sale_type = "marketplace"

\* "or Decimal('0')" on a nullable amount
OrZero(x) == IF x = None THEN 0 ELSE Val(x)

RECURSIVE SumOver(_, _, _)
\* sum(f(t) or 0 for t in the rows of table with ids in S)
SumOver(table, S, field) ==
    IF S = {} THEN 0
    ELSE LET id == CHOOSE x \in S : TRUE
         IN  OrZero(table[id][field]) + SumOver(table, S \ {id}, field)

\* select(SalesTransaction).where(SalesTransaction.show_id == show_id)
ShowTransactionIds(table, show_id) ==
    {id \in DOMAIN table : table[id].show_id = Some(show_id)}

\* the recalculation of one show's totals: a full re-sum over its rows
RecomputeShow(show, table) ==
    [show EXCEPT
        !.total_cogs = SumOver(table, ShowTransactionIds(table, show.id), "cogs"),
        !.total_net_profit =
            SumOver(table, ShowTransactionIds(table, show.id), "net_profit")]

\* compute_show_aggregates: nothing changes for a show without transactions
compute_show_aggregates(showTable, table, show_id) ==
    IF show_id \notin DOMAIN showTable \/ ShowTransactionIds(table, show_id) = {}
    THEN showTable
    ELSE [showTable EXCEPT ![show_id] = RecomputeShow(showTable[show_id], table)]

\* f"{product_name} - Auto-generated"
AutoRuleName(product_name) == product_name \o <<" ", "-", " ", "auto">>

\* .first() of the rows with this rule_name, in the storage's scan order
FirstRuleNamed(ruleTable, rule_name) ==
    LET hits == {i \in DOMAIN ruleTable : ruleTable[i].rule_name = rule_name}
    IN  IF hits = {} THEN 0 ELSE CHOOSE i \in hits : \A j \in hits : i <= j

\* save_product_cogs without the lookup of the existing rule
SaveRule_AlwaysCreate(ruleTable, product_name, cogs, keywords) ==
    Append(ruleTable,
           [id |-> NextId(RuleIds(ruleTable)),
            rule_name |-> AutoRuleName(product_name),
            keywords |-> keywords, cogs_amount |-> cogs,
            match_type |-> "contains", priority |-> 50,
            is_active |-> TRUE])

\* the first part of save_product_cogs: create or update the rule
SaveRule(ruleTable, product_name, cogs, keywords) ==
    LET i == FirstRuleNamed(ruleTable, AutoRuleName(product_name))
    IN  IF i # 0
        THEN [ruleTable EXCEPT ![i].keywords = keywords,
                               ![i].cogs_amount = cogs,
                               ![i].is_active = TRUE]
        ELSE Append(ruleTable,
                    [id |-> NextId(RuleIds(ruleTable)),
                     rule_name |-> AutoRuleName(product_name),
                     keywords |-> keywords, cogs_amount |-> cogs,
                     match_type |-> "contains", priority |-> 50,
                     is_active |-> TRUE])

\* the id of the rule save_product_cogs created or updated
SavedRuleId(ruleTable, product_name) ==
    LET i == FirstRuleNamed(ruleTable, AutoRuleName(product_name))
    IN  IF i # 0 THEN ruleTable[i].id ELSE NextId(RuleIds(ruleTable))

\* the keyword loop of save_product_cogs: some keyword, lower-cased, occurs
\* in the lower-cased item name
SaveKeywordHit(t, keywords) ==
    \E k \in 1..Len(keywords) : Contains(Lower(t.item_name), Lower(keywords[k]))

\* the body of the scan of save_product_cogs for a transaction that matched
SaveApply(t, cogs_decimal, rule_id) ==
    LET cogs == cogs_decimal * t.quantity
        withCogs == [t EXCEPT !.cogs = Some(cogs),
                              !.matched_cogs_rule_id = Some(rule_id)]
    IN  IF t.net_earnings # 0
        THEN LET net_profit == t.net_earnings - cogs
             IN  [withCogs EXCEPT
                    !.net_profit = Some(net_profit),
                    !.roi_percent = IF cogs > 0
                                    THEN Some(RoiPercent(net_profit, cogs))
                                    ELSE t.roi_percent]
        ELSE withCogs

\* the ids of the transactions the scan of save_product_cogs writes to
SaveMatched(table, keywords) ==
    {id \in DOMAIN table : InScope(table[id]) /\ SaveKeywordHit(table[id], keywords)}

\* the scan of save_product_cogs over all in-scope transactions
SaveScan(table, cogs_decimal, keywords, rule_id) ==
    [id \in DOMAIN table |->
        IF id \in SaveMatched(table, keywords)
        THEN SaveApply(table[id], cogs_decimal, rule_id)
        ELSE table[id]]

\* affected_show_ids of save_product_cogs
AffectedShowIds(table, keywords) ==
    {Val(table[id].show_id) :
        id \in {x \in SaveMatched(table, keywords) : table[x].show_id # None}}

\* show totals kept by adding the matched transactions' values to them
SaveShowTotals_Delta(showTable, table, affected) ==
    [sid \in DOMAIN showTable |->
        IF sid \in affected
        THEN LET hit == {id \in ShowTransactionIds(table, sid) :
                            table[id].matched_cogs_rule_id # None}
             IN  [showTable[sid] EXCEPT
                    !.total_cogs = @ + SumOver(table, hit, "cogs"),
                    !.total_net_profit = @ + SumOver(table, hit, "net_profit")]
        ELSE showTable[sid]]

\* the last part of save_product_cogs: re-sum every affected show that exists
SaveShowTotals(showTable, table, affected) ==
    [sid \in DOMAIN showTable |->
        IF sid \in affected
        THEN RecomputeShow(showTable[sid], table)
        ELSE showTable[sid]]

\* the dict save_product_cogs returns: a success flag and a message made of
\* the product name and matched_count
SaveResponse(product_name, matched_count) ==
    [success |-> TRUE, message |-> <<product_name, matched_count>>]

\* the manual override without the line that clears the rule linkage
update_transaction_KeepRule(t, cogs) ==
    IF cogs = None THEN t
    ELSE LET net_profit == t.net_earnings - Val(cogs)
         IN  [t EXCEPT
                !.cogs = cogs,
                !.net_profit = Some(net_profit),
                !.roi_percent = IF Val(cogs) > 0
                                THEN Some(RoiPercent(net_profit, Val(cogs)))
                                ELSE None]

\* the manual override of update_transaction; cogs is the nullable payload
update_transaction(t, cogs) ==
    IF cogs = None THEN t
    ELSE LET net_profit == t.net_earnings - Val(cogs)
         IN  [t EXCEPT
                !.cogs = cogs,
                !.matched_cogs_rule_id = None,
                !.net_profit = Some(net_profit),
                !.roi_percent = IF Val(cogs) > 0
                                THEN Some(RoiPercent(net_profit, Val(cogs)))
                                ELSE None]

\* a recalculation that adds the matched cost to the COGS already stored
recalculate_transaction_cogs_Accumulate(t, matched) ==
    IF matched[2] # None
    THEN LET total_cogs == OrZero(t.cogs) + Val(matched[2]) * t.quantity
         IN  [t EXCEPT !.cogs = Some(total_cogs),
                       !.matched_cogs_rule_id = matched[1],
                       !.net_profit = Some(t.net_earnings - total_cogs),
                       !.roi_percent = IF total_cogs > 0
                                       THEN Some(RoiPercent(t.net_earnings - total_cogs,
                                                            total_cogs))
                                       ELSE None]
    ELSE [t EXCEPT !.cogs = None, !.net_profit = None, !.roi_percent = None,
                   !.matched_cogs_rule_id = None]

\* a recalculation that leaves the stored values alone when no rule matches
recalculate_transaction_cogs_KeepOnMiss(t, matched) ==
    IF matched[2] # None
    THEN apply_cogs_to_transaction(t, Val(matched[2]), matched[1])
    ELSE t

\* recalculate_transaction_cogs, given the tuple match_cogs_rule returned
recalculate_transaction_cogs(t, matched) ==
    IF matched[2] # None
    THEN apply_cogs_to_transaction(t, Val(matched[2]), matched[1])
    ELSE [t EXCEPT !.cogs = None, !.net_profit = None, !.roi_percent = None,
                   !.matched_cogs_rule_id = None]

\* the COGS assignment of import_excel_show for one new row
ImportApply(t, matched) ==
    IF matched[2] # None
    THEN apply_cogs_to_transaction(t, Val(matched[2]), matched[1])
    ELSE t

\* the COGS assignment of import_marketplace_excel for a row without COGS:
\* "if rule_id and cogs_amount" is false for a cost of zero
ImportMarketplaceApply(t, matched) ==
    IF matched[1] # None /\ Val(matched[1]) # 0
       /\ matched[2] # None /\ Val(matched[2]) # 0
    THEN apply_cogs_to_transaction(t, Val(matched[2]), matched[1])
    ELSE t

\* the next request in a run; n counts the requests served and twice tells
\* that the request before it had the same name and arguments
Served(op, args, touched) ==
    [op |-> op, args |-> args, touched |-> touched, n |-> last.n + 1,
     twice |-> (last.op = op /\ last.args = args),
     before |-> <<>>, result |-> <<>>, status |-> 200]

\* rows of an imported sheet: item name, quantity, net earnings
\* ("Ab", 2, 6) and ("x", 1, 0)
SheetRows == { << <<"A", "b">>, 2, 6 >>, << <<"x">>, 1, 0 >> }

\* the sheets of a show import: the row "Ab" alone, or the rows "Ab" and "x"
Sheets ==
    { << << <<"A", "b">>, 2, 6 >> >>,
      << << <<"A", "b">>, 2, 6 >>, << <<"x">>, 1, 0 >> >> }

\* product names, costs and keyword lists of the save-product-COGS requests:
\* keyword lists "aB" and "c", "x"
ProductNames == { <<"P">> }
SaveCosts == {0, 2}
SaveKeywordLists == { << <<"a", "B">> >>, << <<"c">>, <<"x">> >> }

\* payloads of create_cogs_rule: an exact rule on "ab" and a contains rule
\* on "B", both at a priority above the auto-generated rules
CreatePayloads ==
    { [rule_name |-> <<"r">>, keywords |-> << <<"a", "b">> >>, cogs_amount |-> 1,
       match_type |-> "exact", priority |-> 60, is_active |-> TRUE],
      [rule_name |-> <<"s">>, keywords |-> << <<"B">> >>, cogs_amount |-> 3,
       match_type |-> "contains", priority |-> 50, is_active |-> TRUE] }

\* totals a manual override may supply
ManualCogs == {None, Some(0), Some(4)}

CInit ==
    /\ MIdle
    /\ DbIdle

\* import_excel_show: create the show, add a transaction per row with the
\* COGS of the rule it matches, then compute the show's aggregates
RECURSIVE ImportRows(_, _, _, _)
ImportRows(table, sheet, show_id, choice) ==
    IF sheet = <<>> THEN table
    ELSE LET row == Head(sheet)
             id == NextId(DOMAIN table)
             t == NewTransaction(id, Some(show_id), "stream", row[1], row[2], row[3])
             matched == choice[normalize_product_name(row[1])]
         IN  ImportRows(table @@ (id :> ImportApply(t, matched)),
                        Tail(sheet), show_id, choice)

\* one result of match_cogs_rule for each normalized name of the sheet
MatchChoices(ruleTable, sheet) ==
    LET names == {normalize_product_name(sheet[i][1]) : i \in DOMAIN sheet}
    IN  {c \in [names -> {<<None, None>>} \cup
                         {<<Some(r.id), Some(r.cogs_amount)>> : r \in Range(ruleTable)}] :
            \A nm \in names : c[nm] \in match_cogs_rule(ruleTable, nm)}

ImportShow ==
    /\ last.n < MaxRequests
    /\ Cardinality(DOMAIN shows) < MaxShows
    /\ \E sheet \in Sheets : \E choice \in MatchChoices(rules, sheet) :
          LET show_id == NextId(DOMAIN shows)
              table == ImportRows(txns, sheet, show_id, choice)
              created == shows @@ (show_id :> [id |-> show_id, total_cogs |-> 0,
                                               total_net_profit |-> 0])
          IN  /\ txns' = table
              /\ shows' = compute_show_aggregates(created, table, show_id)
              /\ last' = Served("import_show", <<sheet>>,
                                {id \in DOMAIN table : id \notin DOMAIN txns
                                                       /\ table[id].cogs # None})
    /\ UNCHANGED <<rules, catalog, view, mvars, ivars, svars>>

\* import_marketplace_excel with one row whose COGS columns are empty
ImportMarketplace ==
    /\ last.n < MaxRequests
    /\ \E row \in SheetRows :
       \E matched \in match_cogs_rule(rules, normalize_product_name(row[1])) :
          LET id == NextId(DOMAIN txns)
              t == NewTransaction(id, None, "marketplace", row[1], row[2], row[3])
              stored == ImportMarketplaceApply(t, matched)
          IN  /\ txns' = txns @@ (id :> stored)
              /\ last' = Served("import_marketplace", <<row>>,
                                IF stored.cogs # None THEN {id} ELSE {})
    /\ UNCHANGED <<rules, shows, catalog, view, mvars, ivars, svars>>

\* POST /cogs-rules
CreateRule ==
    /\ last.n < MaxRequests
    /\ Len(rules) < MaxRules
    /\ \E payload \in CreatePayloads :
          /\ rules' = Append(rules, [id |-> NextId(RuleIds(rules)),
                                     rule_name |-> payload.rule_name,
                                     keywords |-> payload.keywords,
                                     cogs_amount |-> payload.cogs_amount,
                                     match_type |-> payload.match_type,
                                     priority |-> payload.priority,
                                     is_active |-> payload.is_active])
          /\ last' = Served("create_rule", <<payload>>, {})
    /\ UNCHANGED <<txns, shows, catalog, view, mvars, ivars, svars>>

\* POST /cogs-rules/{rule_id}/toggle for a rule that exists
ToggleRule ==
    /\ last.n < MaxRequests
    /\ \E rule_id \in RuleIds(rules) :
          /\ rules' = toggle_cogs_rule(rules, rule_id)
          /\ last' = Served("toggle_rule", <<rule_id>>, {})
    /\ UNCHANGED <<txns, shows, catalog, view, mvars, ivars, svars>>

\* PUT /transactions/{transaction_id} for a transaction that exists
UpdateTransaction ==
    /\ last.n < MaxRequests
    /\ \E id \in DOMAIN txns : \E cogs \in ManualCogs :
          /\ txns' = [txns EXCEPT ![id] = update_transaction(txns[id], cogs)]
          /\ last' = [Served("update_transaction", <<id, cogs>>,
                             IF cogs # None THEN {id} ELSE {})
                         EXCEPT !.before = txns[id]]
    /\ UNCHANGED <<rules, shows, catalog, view, mvars, ivars, svars>>

\* POST /transactions/{transaction_id}/recalculate-cogs for one that exists.
\* The rules query has no tie-break after priority; the storage answers the
\* same query over an unchanged rules table with the same rows in the same
\* order, so a request that repeats the one before it gets the same tuple.
Recalculate ==
    /\ last.n < MaxRequests
    /\ \E id \in DOMAIN txns :
       \E matched \in match_cogs_rule(rules, normalize_product_name(txns[id].item_name)) :
          /\ (last.op = "recalculate" /\ last.args = <<id>>) => matched = last.result
          /\ txns' = [txns EXCEPT ![id] = recalculate_transaction_cogs(txns[id], matched)]
          /\ last' = [Served("recalculate", <<id>>,
                             IF matched[2] # None THEN {id} ELSE {})
                         EXCEPT !.before = txns[id], !.result = matched]
    /\ UNCHANGED <<rules, shows, catalog, view, mvars, ivars, svars>>

\* POST /product-catalog/save-cogs
SaveProductCogs ==
    /\ last.n < MaxRequests
    /\ \E product_name \in ProductNames : \E cogs \in SaveCosts :
       \E keywords \in SaveKeywordLists :
          LET rule_id == SavedRuleId(rules, product_name)
              table == SaveScan(txns, cogs, keywords, rule_id)
          IN  /\ rules' = SaveRule(rules, product_name, cogs, keywords)
              /\ txns' = table
              /\ shows' = SaveShowTotals(shows, table, AffectedShowIds(txns, keywords))
              /\ last' = Served("save_product_cogs", <<product_name, cogs, keywords>>,
                                SaveMatched(txns, keywords))
    /\ UNCHANGED <<catalog, view, mvars, ivars, svars>>

CNext ==
    \/ ImportShow
    \/ ImportMarketplace
    \/ CreateRule
    \/ ToggleRule
    \/ UpdateTransaction
    \/ Recalculate
    \/ SaveProductCogs

Spec == CInit /\ [][CNext]_vars

----------------------------------------------------------------------------
(* Product catalog: the catalog matcher of GET /product-catalog, the manual *)
(* remap and the deletion of a catalog entry                                *)

CatalogRuleType == {"include_any", "include_all", "include_and_exclude", "catch_all"}

\* any(kw.lower() in item_name_lower for kw in keywords)
AnyKeywordIn(keywords, item_name_lower) ==
    \E i \in 1..Len(keywords) : Contains(item_name_lower, Lower(keywords[i]))

\* all(kw.lower() in item_name_lower for kw in keywords)
AllKeywordsIn(keywords, item_name_lower) ==
    \A i \in 1..Len(keywords) : Contains(item_name_lower, Lower(keywords[i]))

\* include_all tested as include_any
EntryMatches_AllAsAny(catalog_item, item_name_lower) ==
    CASE catalog_item.rule_type = "include_all" ->
           AnyKeywordIn(catalog_item.include_keywords, item_name_lower)
      [] catalog_item.rule_type = "include_any" ->
           AnyKeywordIn(catalog_item.include_keywords, item_name_lower)
      [] catalog_item.rule_type = "include_and_exclude" ->
           /\ AnyKeywordIn(catalog_item.include_keywords, item_name_lower)
           /\ ~AnyKeywordIn(catalog_item.exclude_keywords, item_name_lower)
      [] OTHER -> FALSE

\* the value of "match" for one catalog item of the keyword pass
EntryMatches(catalog_item, item_name_lower) ==
    CASE catalog_item.rule_type = "include_all" ->
           AllKeywordsIn(catalog_item.include_keywords, item_name_lower)
      [] catalog_item.rule_type = "include_any" ->
           AnyKeywordIn(catalog_item.include_keywords, item_name_lower)
      [] catalog_item.rule_type = "include_and_exclude" ->
           /\ AnyKeywordIn(catalog_item.include_keywords, item_name_lower)
           /\ ~AnyKeywordIn(catalog_item.exclude_keywords, item_name_lower)
      [] OTHER -> FALSE

\* the keyword pass over the catalog items in query order: the id of the
\* first item that is not catch_all and matches, or NULL
RECURSIVE KeywordPass(_, _)
KeywordPass(catalog_items, item_name_lower) ==
    IF catalog_items = <<>> THEN None
    ELSE IF Head(catalog_items).rule_type # "catch_all"
            /\ EntryMatches(Head(catalog_items), item_name_lower)
         THEN Some(Head(catalog_items).id)
         ELSE KeywordPass(Tail(catalog_items), item_name_lower)

\* the first catch_all item in query order, or NULL
RECURSIVE CatchAllItem(_)
CatchAllItem(catalog_items) ==
    IF catalog_items = <<>> THEN None
    ELSE IF Head(catalog_items).rule_type = "catch_all"
         THEN Some(Head(catalog_items).id)
         ELSE CatchAllItem(Tail(catalog_items))

\* "if t.catalog_item_id and t.is_mapped" and the catalog item still exists
DirectlyMapped(t, catalog_items) ==
    /\ t.catalog_item_id # None
    /\ t.is_mapped
    /\ \E i \in 1..Len(catalog_items) : catalog_items[i].id = Val(t.catalog_item_id)

\* the matching loop without its first step
ResolveTransaction_NoDirect(t, catalog_items) ==
    LET m == KeywordPass(catalog_items, Lower(t.item_name))
    IN  IF m # None THEN m ELSE CatchAllItem(catalog_items)

\* the matching loop without its last step
ResolveTransaction_NoCatchAll(t, catalog_items) ==
    IF DirectlyMapped(t, catalog_items) THEN t.catalog_item_id
    ELSE KeywordPass(catalog_items, Lower(t.item_name))

\* the body of the matching loop of get_product_catalog for one transaction:
\* the value of transaction_matches.get(t.id)
ResolveTransaction(t, catalog_items) ==
    IF DirectlyMapped(t, catalog_items) THEN t.catalog_item_id
    ELSE LET m == KeywordPass(catalog_items, Lower(t.item_name))
         IN  IF m # None THEN m ELSE CatchAllItem(catalog_items)

\* the transaction query of the view without its where clause
InScopeIds_NoWhere(table) == DOMAIN table

InScopeIds(table) == {id \in DOMAIN table : InScope(table[id])}

\* get_product_catalog on the rows the catalog query returned: the match of
\* every in-scope transaction and the sales count of every catalog item
get_product_catalog(catalog_items, table) ==
    LET matches == [id \in InScopeIds(table) |->
                       ResolveTransaction(table[id], catalog_items)]
    IN  [computed |-> TRUE,
         matches |-> matches,
         sales |-> [cid \in {catalog_items[i].id : i \in 1..Len(catalog_items)} |->
                       Cardinality({id \in InScopeIds(table) :
                                       matches[id] = Some(cid)})]]

\* get_mapping_status: the counts "total_transactions" and "mapped"
get_mapping_status(table) ==
    [total_transactions |-> Cardinality(InScopeIds(table)),
     mapped |-> Cardinality({id \in InScopeIds(table) : table[id].is_mapped})]

\* a remap that also drops the COGS rule linkage of the transaction
remap_transaction_catalog_DropsRule(t, catalog_item) ==
    [t EXCEPT !.catalog_item_id = Some(catalog_item.id),
              !.is_mapped = TRUE,
              !.matched_keyword = Some(<<"Manual: ">> \o catalog_item.name),
              !.mapped_at = Some("utcnow"),
              !.matched_cogs_rule_id = None]

\* remap_transaction_catalog for a transaction and a catalog item that exist
remap_transaction_catalog(t, catalog_item) ==
    [t EXCEPT !.catalog_item_id = Some(catalog_item.id),
              !.is_mapped = TRUE,
              !.matched_keyword = Some(<<"Manual: ">> \o catalog_item.name),
              !.mapped_at = Some("utcnow")]

\* db.delete(item) on a catalog item: the relationship mapped_transactions
\* has no delete cascade, so the rows that reference the item get a NULL
\* catalog_item_id and keep their other columns
DeleteCatalogRefs(table, item_id) ==
    [id \in DOMAIN table |->
        IF table[id].catalog_item_id = Some(item_id)
        THEN [table[id] EXCEPT !.catalog_item_id = None]
        ELSE table[id]]

\* the table without the row item_id
WithoutRow(table, item_id) ==
    [id \in DOMAIN table \ {item_id} |-> table[id]]

\* catalog entries as update_catalog_item leaves them: name, rule kind,
\* include and exclude keywords, priority, and the keywords column of the
\* earlier matcher that mark_catalog_item_mapped still reads
CatalogPayloads ==
    { [name |-> <<"any">>, rule_type |-> "include_any",
       include_keywords |-> << <<"a">> >>, exclude_keywords |-> <<>>,
       priority |-> 2,
       keywords |-> << <<"a">> >>],
      [name |-> <<"all">>, rule_type |-> "include_all",
       include_keywords |-> << <<"a">>, <<"B">> >>, exclude_keywords |-> <<>>,
       priority |-> 1,
       keywords |-> << <<"a">>, <<"B">> >>],
      [name |-> <<"excl">>, rule_type |-> "include_and_exclude",
       include_keywords |-> << <<"a">> >>, exclude_keywords |-> << <<"X">> >>,
       priority |-> 2,
       keywords |-> << <<"a">> >>],
      [name |-> <<"rest">>, rule_type |-> "catch_all",
       include_keywords |-> << <<"a">> >>, exclude_keywords |-> <<>>,
       priority |-> 3,
       keywords |-> <<>>],
      [name |-> <<"empty">>, rule_type |-> "include_all",
       include_keywords |-> <<>>, exclude_keywords |-> <<>>,
       priority |-> 3,
       keywords |-> << <<"e">> >>],
      [name |-> <<"up">>, rule_type |-> "include_any",
       include_keywords |-> << <<"C">>, <<"X">> >>, exclude_keywords |-> <<>>,
       priority |-> 1,
       keywords |-> << <<"C">>, <<"X">> >>] }

CatalogRow(id, payload) ==
    [id |-> id, name |-> payload.name, rule_type |-> payload.rule_type,
     include_keywords |-> payload.include_keywords,
     exclude_keywords |-> payload.exclude_keywords,
     priority |-> payload.priority, keywords |-> payload.keywords]

\* catalogs of MaxEntries different entries, in any insertion order
CatalogTables ==
    {[id \in 1..MaxEntries |-> CatalogRow(id, f[id])] :
        f \in {g \in [1..MaxEntries -> CatalogPayloads] :
                  \A i, j \in 1..MaxEntries : i # j => g[i] # g[j]}}

\* item names of the transactions of a catalog run: "Ab", "a x", "c"
VNames == { <<"A", "b">>, <<"a", " ", "x">>, <<"c">> }

\* a catalog run starts from a catalog, one imported show with one
\* transaction, and one transaction without a show that is a marketplace
\* order or belongs to the test bucket
VInit ==
    /\ MIdle
    /\ catalog \in CatalogTables
    /\ \E item_name \in VNames : \E sale_type \in {"marketplace", "stream"} :
          txns = << NewTransaction(1, Some(1), "stream", item_name, 1, 6),
                    NewTransaction(2, None, sale_type, <<"A", "b">>, 1, 6) >>
    /\ rules = <<>>
    /\ shows = << [id |-> 1, total_cogs |-> 0, total_net_profit |-> 0] >>
    /\ last = NoLast
    /\ view = NoView
    /\ InventoryIdle
    /\ SessionsIdle

\* PUT /transactions/{transaction_id}/remap-catalog, both ids existing
RemapTransaction ==
    /\ \E id \in DOMAIN txns : \E catalog_id \in DOMAIN catalog :
          txns' = [txns EXCEPT ![id] =
                      remap_transaction_catalog(txns[id], catalog[catalog_id])]
    /\ view' = NoView
    /\ UNCHANGED <<catalog, rules, shows, last, mvars, ivars, svars>>

\* DELETE /product-catalog/{item_id} for an item that exists
DeleteCatalogItem ==
    /\ \E item_id \in DOMAIN catalog :
          /\ catalog' = WithoutRow(catalog, item_id)
          /\ txns' = DeleteCatalogRefs(txns, item_id)
    /\ view' = NoView
    /\ UNCHANGED <<rules, shows, last, mvars, ivars, svars>>

\* GET /product-catalog
GetProductCatalog ==
    /\ \E catalog_items \in OrderedByPriorityDesc(Range(catalog)) :
          view' = get_product_catalog(catalog_items, txns)
    /\ UNCHANGED <<txns, catalog, rules, shows, last, mvars, ivars, svars>>

VNext == RemapTransaction \/ DeleteCatalogItem \/ GetProductCatalog

SpecCatalog == VInit /\ [][VNext]_vars

----------------------------------------------------------------------------
(* Single requests: a populated database is drawn and one request of the    *)
(* admin API or of the inventory API is served, with ids that exist or not  *)

\* "if t.is_mapped and t.catalog_item_id != catalog_id: continue"
MarkSkipped(t, catalog_id) == t.is_mapped /\ t.catalog_item_id # Some(catalog_id)

\* the indexes of the keywords of the entry that occur in the item name
MarkKeywordHits(t, keywords) ==
    {k \in 1..Len(keywords) : Contains(Lower(t.item_name), Lower(keywords[k]))}

\* the transactions for which the body of the keyword loop runs
MarkHits(table, catalog_item) ==
    {id \in InScopeIds(table) :
        /\ ~MarkSkipped(table[id], catalog_item.id)
        /\ MarkKeywordHits(table[id], catalog_item.keywords) # {}}

\* the assignments of the loop body, made on the session's objects
MarkWrite(t, catalog_item) ==
    LET hits == MarkKeywordHits(t, catalog_item.keywords)
        first == CHOOSE k \in hits : \A j \in hits : k <= j
    IN  [t EXCEPT !.catalog_item_id = Some(catalog_item.id),
                  !.is_mapped = TRUE,
                  !.matched_keyword = Some(catalog_item.keywords[first]),
                  !.mapped_at = Some("utcnow")]

\* a bulk action that counts in mapped_count and does not skip the
\* transactions mapped to another entry
mark_catalog_item_mapped_NoSkip(table, catalog_item) ==
    LET hits == {id \in InScopeIds(table) :
                    MarkKeywordHits(table[id], catalog_item.keywords) # {}}
    IN  [status |-> 200,
         table |-> [id \in DOMAIN table |->
                       IF id \in hits THEN MarkWrite(table[id], catalog_item)
                       ELSE table[id]],
         transactions_mapped |-> Cardinality(hits)]

\* mark_catalog_item_mapped for an entry that exists.  The loop body adds to
\* matched_count, a name the function never binds (its counter is
\* mapped_count): the first transaction that reaches the body raises
\* UnboundLocalError before db.commit(), the session is closed without a
\* commit and the request is answered with status 500.  Without such a
\* transaction the loop writes nothing and the count returned is 0.
mark_catalog_item_mapped(table, catalog_item) ==
    IF MarkHits(table, catalog_item) # {}
    THEN [status |-> 500, table |-> table, transactions_mapped |-> 0]
    ELSE [status |-> 200, table |-> table, transactions_mapped |-> 0]

\* setattr(rule, field, value) for the fields the payload sets
update_cogs_rule(rule, payload) ==
    [f \in DOMAIN rule |-> IF f \in DOMAIN payload THEN payload[f] ELSE rule[f]]

\* db.delete(rule): the relationship matched_transactions has no delete
\* cascade, so the rows that reference the rule get a NULL matched_cogs_rule_id
DeleteRuleRefs(table, rule_id) ==
    [id \in DOMAIN table |->
        IF table[id].matched_cogs_rule_id = Some(rule_id)
        THEN [table[id] EXCEPT !.matched_cogs_rule_id = None]
        ELSE table[id]]

\* the rules table without the rule rule_id, in insertion order
RECURSIVE WithoutRule(_, _)
WithoutRule(ruleTable, rule_id) ==
    IF ruleTable = <<>> THEN <<>>
    ELSE IF Head(ruleTable).id = rule_id THEN WithoutRule(Tail(ruleTable), rule_id)
         ELSE <<Head(ruleTable)>> \o WithoutRule(Tail(ruleTable), rule_id)

\* setattr(item, field, value) for the fields the payload sets
update_catalog_item(item, payload) ==
    [f \in DOMAIN item |-> IF f \in DOMAIN payload THEN payload[f] ELSE item[f]]

\* the row add_catalog_item stores for a product name that is not in the
\* catalog: the lower-cased name as keyword, the column defaults otherwise
add_catalog_item(id, product_name) ==
    [id |-> id, name |-> product_name, rule_type |-> "include_any",
     include_keywords |-> <<>>, exclude_keywords |-> <<>>, priority |-> 100,
     keywords |-> <<Lower(product_name)>>]

\* the rule of the drawn database: "a" anywhere in the name costs 1 per unit
RRule ==
    [id |-> 1, rule_name |-> <<"r">>, keywords |-> << <<"a">> >>,
     cogs_amount |-> 1, match_type |-> "contains", priority |-> 50,
     is_active |-> TRUE]

\* the catalog columns a transaction may hold: never mapped, or remapped to
\* an entry of the catalog
RMapped(t, catalogTable) ==
    {t} \cup {remap_transaction_catalog(t, catalogTable[c]) : c \in DOMAIN catalogTable}

\* the first transaction of the drawn database: imported with show 1 while
\* RRule was the only rule
RImported(item_name) ==
    ImportApply(NewTransaction(1, Some(1), "stream", item_name, 2, 6),
                CHOOSE m \in match_cogs_rule(<<RRule>>, normalize_product_name(item_name)) : TRUE)

\* the second: without a show, with a manual COGS of 4
ROverridden(sale_type) ==
    update_transaction(NewTransaction(2, None, sale_type, <<"A", "b">>, 1, 6), Some(4))

\* the requests' payloads
RRulePayloads ==
    { [keywords |-> << <<"c">> >>], [keywords |-> <<>>], [cogs_amount |-> 3],
      [is_active |-> FALSE, priority |-> 60] }
RCatalogPayloads ==
    { [keywords |-> << <<"c">> >>], [rule_type |-> "catch_all"],
      [name |-> <<"n">>, priority |-> 5] }
RCreatePayloads ==
    CreatePayloads \cup
    { [rule_name |-> <<"e">>, keywords |-> <<>>, cogs_amount |-> 3,
       match_type |-> "contains", priority |-> 50, is_active |-> TRUE] }
RSaveKeywordLists == SaveKeywordLists \cup { <<>> }

RInit ==
    /\ MIdle
    /\ catalog \in CatalogTables
    /\ rules = <<RRule>>
    /\ \E item_name \in VNames : \E sale_type \in {"marketplace", "stream"} :
       \E t1 \in RMapped(RImported(item_name), catalog) :
       \E t2 \in {ROverridden(sale_type)} :
          /\ txns = <<t1, t2>>
          /\ shows = compute_show_aggregates(
                        << [id |-> 1, total_cogs |-> 0, total_net_profit |-> 0] >>,
                        <<t1, t2>>, 1)
    /\ last = NoLast
    /\ view = NoView
    /\ master_cards = << [id |-> 1] >>
    /\ inventory_items = <<>>
    /\ SessionsIdle

\* the record of the one request served
RServed(op, args, status, touched) ==
    [NoLast EXCEPT !.op = op, !.args = args, !.n = 1, !.status = status,
                   !.touched = touched]

\* the ids a request may name: those stored and one that is not
RIds(ids) == ids \cup {NextId(ids)}

\* PUT /transactions/{transaction_id}
RUpdateTransaction ==
    /\ last.op = "none"
    /\ \E id \in RIds(DOMAIN txns) : \E cogs \in ManualCogs :
          IF id \in DOMAIN txns
          THEN /\ txns' = [txns EXCEPT ![id] = update_transaction(txns[id], cogs)]
               /\ last' = [RServed("update_transaction", <<id, cogs>>, 200,
                                   IF cogs # None THEN {id} ELSE {})
                              EXCEPT !.before = txns[id]]
          ELSE /\ txns' = txns
               /\ last' = RServed("update_transaction", <<id, cogs>>, 404, {})
    /\ UNCHANGED <<rules, shows, catalog, view, mvars, ivars, svars>>

\* POST /transactions/{transaction_id}/recalculate-cogs
RRecalculate ==
    /\ last.op = "none"
    /\ \E id \in RIds(DOMAIN txns) :
          IF id \in DOMAIN txns
          THEN \E matched \in match_cogs_rule(rules,
                                 normalize_product_name(txns[id].item_name)) :
                  /\ txns' = [txns EXCEPT ![id] =
                                 recalculate_transaction_cogs(txns[id], matched)]
                  /\ last' = [RServed("recalculate", <<id>>, 200,
                                      IF matched[2] # None THEN {id} ELSE {})
                                 EXCEPT !.before = txns[id], !.result = matched]
          ELSE /\ txns' = txns
               /\ last' = RServed("recalculate", <<id>>, 404, {})
    /\ UNCHANGED <<rules, shows, catalog, view, mvars, ivars, svars>>

\* POST /cogs-rules: the payload is stored as it is
RCreateRule ==
    /\ last.op = "none"
    /\ \E payload \in RCreatePayloads :
          /\ rules' = Append(rules, [id |-> NextId(RuleIds(rules)),
                                     rule_name |-> payload.rule_name,
                                     keywords |-> payload.keywords,
                                     cogs_amount |-> payload.cogs_amount,
                                     match_type |-> payload.match_type,
                                     priority |-> payload.priority,
                                     is_active |-> payload.is_active])
          /\ last' = RServed("create_rule", <<payload>>, 201, {})
    /\ UNCHANGED <<txns, shows, catalog, view, mvars, ivars, svars>>

\* PUT /cogs-rules/{rule_id}
RUpdateRule ==
    /\ last.op = "none"
    /\ \E rule_id \in RIds(RuleIds(rules)) : \E payload \in RRulePayloads :
          IF rule_id \in RuleIds(rules)
          THEN /\ rules' = [i \in DOMAIN rules |->
                               IF rules[i].id = rule_id
                               THEN update_cogs_rule(rules[i], payload)
                               ELSE rules[i]]
               /\ last' = RServed("update_rule", <<rule_id, payload>>, 200, {})
          ELSE /\ rules' = rules
               /\ last' = RServed("update_rule", <<rule_id, payload>>, 404, {})
    /\ UNCHANGED <<txns, shows, catalog, view, mvars, ivars, svars>>

\* DELETE /cogs-rules/{rule_id}
RDeleteRule ==
    /\ last.op = "none"
    /\ \E rule_id \in RIds(RuleIds(rules)) :
          IF rule_id \in RuleIds(rules)
          THEN /\ rules' = WithoutRule(rules, rule_id)
               /\ txns' = DeleteRuleRefs(txns, rule_id)
               /\ last' = RServed("delete_rule", <<rule_id>>, 204, {})
          ELSE /\ rules' = rules
               /\ txns' = txns
               /\ last' = RServed("delete_rule", <<rule_id>>, 404, {})
    /\ UNCHANGED <<shows, catalog, view, mvars, ivars, svars>>

\* POST /cogs-rules/{rule_id}/toggle
RToggleRule ==
    /\ last.op = "none"
    /\ \E rule_id \in RIds(RuleIds(rules)) :
          IF rule_id \in RuleIds(rules)
          THEN /\ rules' = toggle_cogs_rule(rules, rule_id)
               /\ last' = RServed("toggle_rule", <<rule_id>>, 200, {})
          ELSE /\ rules' = rules
               /\ last' = RServed("toggle_rule", <<rule_id>>, 404, {})
    /\ UNCHANGED <<txns, shows, catalog, view, mvars, ivars, svars>>

\* POST /product-catalog/save-cogs: product_id is received and never read
RSaveProductCogs ==
    /\ last.op = "none"
    /\ \E product_name \in ProductNames : \E cogs \in SaveCosts :
       \E keywords \in RSaveKeywordLists :
          LET rule_id == SavedRuleId(rules, product_name)
              table == SaveScan(txns, cogs, keywords, rule_id)
          IN  /\ rules' = SaveRule(rules, product_name, cogs, keywords)
              /\ txns' = table
              /\ shows' = SaveShowTotals(shows, table, AffectedShowIds(txns, keywords))
              /\ last' = [RServed("save_product_cogs",
                                  <<product_name, cogs, keywords>>,
                                  200, SaveMatched(txns, keywords))
                             EXCEPT !.result =
                                SaveResponse(product_name,
                                             Cardinality(SaveMatched(txns, keywords)))]
    /\ UNCHANGED <<catalog, view, mvars, ivars, svars>>

\* import_marketplace_excel with one row whose COGS columns are empty
RImportMarketplace ==
    /\ last.op = "none"
    /\ \E row \in SheetRows :
       \E matched \in match_cogs_rule(rules, normalize_product_name(row[1])) :
          LET id == NextId(DOMAIN txns)
              t == NewTransaction(id, None, "marketplace", row[1], row[2], row[3])
              stored == ImportMarketplaceApply(t, matched)
          IN  /\ txns' = txns @@ (id :> stored)
              /\ last' = RServed("import_marketplace", <<row>>, 200,
                                 IF stored.cogs # None THEN {id} ELSE {})
    /\ UNCHANGED <<rules, shows, catalog, view, mvars, ivars, svars>>

\* a remap that does not look the catalog item up
RRemap_NoCatalogLookup ==
    /\ last.op = "none"
    /\ \E id \in RIds(DOMAIN txns) : \E catalog_id \in RIds(DOMAIN catalog) :
          IF id \in DOMAIN txns
          THEN /\ txns' = [txns EXCEPT ![id].catalog_item_id = Some(catalog_id),
                                       ![id].is_mapped = TRUE,
                                       ![id].mapped_at = Some("utcnow")]
               /\ last' = RServed("remap", <<id, catalog_id>>, 200, {})
          ELSE /\ txns' = txns
               /\ last' = RServed("remap", <<id, catalog_id>>, 404, {})
    /\ UNCHANGED <<rules, shows, catalog, view, mvars, ivars, svars>>

\* PUT /transactions/{transaction_id}/remap-catalog: the transaction is
\* looked up first, then the catalog item
RRemap ==
    /\ last.op = "none"
    /\ \E id \in RIds(DOMAIN txns) : \E catalog_id \in RIds(DOMAIN catalog) :
          IF id \in DOMAIN txns /\ catalog_id \in DOMAIN catalog
          THEN /\ txns' = [txns EXCEPT ![id] =
                              remap_transaction_catalog(txns[id], catalog[catalog_id])]
               /\ last' = RServed("remap", <<id, catalog_id>>, 200, {})
          ELSE /\ txns' = txns
               /\ last' = RServed("remap", <<id, catalog_id>>, 404, {})
    /\ UNCHANGED <<rules, shows, catalog, view, mvars, ivars, svars>>

\* POST /product-catalog/{catalog_id}/mark-mapped
RMarkMapped ==
    /\ last.op = "none"
    /\ \E catalog_id \in RIds(DOMAIN catalog) :
          IF catalog_id \in DOMAIN catalog
          THEN LET response == mark_catalog_item_mapped(txns, catalog[catalog_id])
               IN  /\ txns' = response.table
                   /\ last' = [RServed("mark_mapped", <<catalog_id>>,
                                       response.status, {})
                                  EXCEPT !.result = <<response.transactions_mapped>>]
          ELSE /\ txns' = txns
               /\ last' = RServed("mark_mapped", <<catalog_id>>, 404, {})
    /\ UNCHANGED <<rules, shows, catalog, view, mvars, ivars, svars>>

\* DELETE /product-catalog/{item_id}
RDeleteCatalogItem ==
    /\ last.op = "none"
    /\ \E item_id \in RIds(DOMAIN catalog) :
          IF item_id \in DOMAIN catalog
          THEN /\ catalog' = WithoutRow(catalog, item_id)
               /\ txns' = DeleteCatalogRefs(txns, item_id)
               /\ last' = RServed("delete_catalog_item", <<item_id>>, 204, {})
          ELSE /\ catalog' = catalog
               /\ txns' = txns
               /\ last' = RServed("delete_catalog_item", <<item_id>>, 404, {})
    /\ UNCHANGED <<rules, shows, view, mvars, ivars, svars>>

\* PATCH /product-catalog/{item_id}
RUpdateCatalogItem ==
    /\ last.op = "none"
    /\ \E item_id \in RIds(DOMAIN catalog) : \E payload \in RCatalogPayloads :
          IF item_id \in DOMAIN catalog
          THEN /\ catalog' = [catalog EXCEPT ![item_id] =
                                 update_catalog_item(catalog[item_id], payload)]
               /\ last' = RServed("update_catalog_item", <<item_id, payload>>, 200, {})
          ELSE /\ catalog' = catalog
               /\ last' = RServed("update_catalog_item", <<item_id, payload>>, 404, {})
    /\ UNCHANGED <<txns, rules, shows, view, mvars, ivars, svars>>

\* POST /product-catalog/add: a name that is in the catalog is a duplicate
RAddCatalogItem ==
    /\ last.op = "none"
    /\ \E product_name \in { <<"any">>, <<"N">> } :
          IF \E c \in DOMAIN catalog : catalog[c].name = product_name
          THEN /\ catalog' = catalog
               /\ last' = RServed("add_catalog_item", <<product_name>>, 400, {})
          ELSE /\ catalog' = catalog @@
                      (NextId(DOMAIN catalog) :>
                          add_catalog_item(NextId(DOMAIN catalog), product_name))
               /\ last' = RServed("add_catalog_item", <<product_name>>, 200, {})
    /\ UNCHANGED <<txns, rules, shows, view, mvars, ivars, svars>>

\* POST /inventory/ of the inventory API
RCreateInventoryItem ==
    /\ last.op = "none"
    /\ \E master_card_id \in RIds(DOMAIN master_cards) : \E quantity \in {1, 2} :
          IF master_card_id \in DOMAIN master_cards
          THEN /\ inventory_items' =
                      Append(inventory_items,
                             [id |-> NextId(DOMAIN inventory_items),
                              master_card_id |-> master_card_id,
                              quantity |-> quantity])
               /\ last' = RServed("create_inventory_item",
                                  <<master_card_id, quantity>>, 201, {})
          ELSE /\ inventory_items' = inventory_items
               /\ last' = RServed("create_inventory_item",
                                  <<master_card_id, quantity>>, 404, {})
    /\ UNCHANGED <<txns, rules, shows, catalog, view, master_cards, mvars, svars>>

\* db.delete(show): the relationship transactions has no delete cascade and
\* the show_id column no ON DELETE rule, so the rows of the show get a NULL
\* show_id and keep their other columns
DeleteShowRefs(table, show_id) ==
    [id \in DOMAIN table |->
        IF table[id].show_id = Some(show_id)
        THEN [table[id] EXCEPT !.show_id = None]
        ELSE table[id]]

\* DELETE /shows/{show_id}
RDeleteShow ==
    /\ last.op = "none"
    /\ \E show_id \in RIds(DOMAIN shows) :
          IF show_id \in DOMAIN shows
          THEN /\ shows' = WithoutRow(shows, show_id)
               /\ txns' = DeleteShowRefs(txns, show_id)
               /\ last' = RServed("delete_show", <<show_id>>, 204, {})
          ELSE /\ shows' = shows
               /\ txns' = txns
               /\ last' = RServed("delete_show", <<show_id>>, 404, {})
    /\ UNCHANGED <<rules, catalog, view, mvars, ivars, svars>>

RNext ==
    \/ RDeleteShow
    \/ RUpdateTransaction
    \/ RRecalculate
    \/ RCreateRule
    \/ RUpdateRule
    \/ RDeleteRule
    \/ RToggleRule
    \/ RSaveProductCogs
    \/ RImportMarketplace
    \/ RRemap
    \/ RMarkMapped
    \/ RDeleteCatalogItem
    \/ RUpdateCatalogItem
    \/ RAddCatalogItem
    \/ RCreateInventoryItem

SpecRequest == RInit /\ [][RNext]_vars

----------------------------------------------------------------------------
(* The singles views: remaps and the two GET endpoints over a catalog with *)
(* the generic "Single Cards" entry                                         *)

\* "include_keywords or keywords or []"
SinglesKeywords(catalog_item) ==
    IF catalog_item.include_keywords # <<>> THEN catalog_item.include_keywords
    ELSE catalog_item.keywords

\* the value of "match" in the loops over the specific singles
SinglesEntryMatches(catalog_item, item_name_lower) ==
    CASE catalog_item.rule_type = "include_all" ->
           AllKeywordsIn(SinglesKeywords(catalog_item), item_name_lower)
      [] catalog_item.rule_type = "include_and_exclude" ->
           /\ AnyKeywordIn(SinglesKeywords(catalog_item), item_name_lower)
           /\ ~AnyKeywordIn(catalog_item.exclude_keywords, item_name_lower)
      [] OTHER ->
           AnyKeywordIn(SinglesKeywords(catalog_item), item_name_lower)

\* the loops over specific_singles: the id of the first specific entry, in
\* query order, that matches the name, or NULL
RECURSIVE SpecificPass(_, _)
SpecificPass(specific_singles, item_name_lower) ==
    IF specific_singles = <<>> THEN None
    ELSE IF SinglesEntryMatches(Head(specific_singles), item_name_lower)
         THEN Some(Head(specific_singles).id)
         ELSE SpecificPass(Tail(specific_singles), item_name_lower)

IsGeneric(catalog_item) == catalog_item.name = <<"Single Cards">>
IsSpecific(catalog_item) == ~IsGeneric(catalog_item)

\* get_singles_catalog on the rows of category Singles in query order: the
\* entry every in-scope transaction is matched to and the sales per entry
get_singles_catalog(singles, table) ==
    LET generics == {i \in 1..Len(singles) : IsGeneric(singles[i])}
        specific_singles == SelectSeq(singles, IsSpecific)
        MatchOf(t) ==
            LET m == SpecificPass(specific_singles, Lower(t.item_name))
            IN  IF m # None THEN m
                ELSE IF generics = {} THEN None
                ELSE LET catch_all_single ==
                            singles[CHOOSE i \in generics : \A j \in generics : j <= i]
                     IN  IF AnyKeywordIn(SinglesKeywords(catch_all_single),
                                         Lower(t.item_name))
                         THEN Some(catch_all_single.id)
                         ELSE None
        matches == [id \in InScopeIds(table) |-> MatchOf(table[id])]
    IN  [computed |-> FALSE,
         matches |-> matches,
         sales |-> [cid \in {singles[i].id : i \in 1..Len(singles)} |->
                       Cardinality({id \in InScopeIds(table) :
                                       matches[id] = Some(cid)})]]

\* get_unmapped_singles: the ids of the in-scope transactions that no
\* specific singles entry matches and that contain a keyword of the generic
\* entry
get_unmapped_singles(catalogTable, table) ==
    LET generics == {cid \in DOMAIN catalogTable : IsGeneric(catalogTable[cid])}
        specific_ids == {cid \in DOMAIN catalogTable :
                            /\ catalogTable[cid].category = "Singles"
                            /\ IsSpecific(catalogTable[cid])}
    IN  IF generics = {} THEN [computed |-> FALSE, unmapped |-> {}]
        ELSE LET generic_single ==
                     catalogTable[CHOOSE c \in generics : \A d \in generics : c <= d]
                 matched_to_specific ==
                     {id \in InScopeIds(table) :
                         \E cid \in specific_ids :
                            SinglesEntryMatches(catalogTable[cid],
                                                Lower(table[id].item_name))}
             IN  [computed |-> FALSE,
                  unmapped |->
                     {id \in InScopeIds(table) \ matched_to_specific :
                         AnyKeywordIn(SinglesKeywords(generic_single),
                                      Lower(table[id].item_name))}]

\* the entries of a singles run: the generic entry on "a", the specific
\* cards S on "x" and T on "a" and "B", and a sealed product on "b"
SinglesPayloads ==
    { [name |-> <<"Single Cards">>, category |-> "Singles",
       rule_type |-> "include_any",
       include_keywords |-> << <<"a">> >>, exclude_keywords |-> <<>>,
       priority |-> 1, keywords |-> <<>>],
      [name |-> <<"S">>, category |-> "Singles", rule_type |-> "include_any",
       include_keywords |-> << <<"x">> >>, exclude_keywords |-> <<>>,
       priority |-> 3, keywords |-> <<>>],
      [name |-> <<"T">>, category |-> "Singles", rule_type |-> "include_all",
       include_keywords |-> <<>>, exclude_keywords |-> <<>>,
       priority |-> 2, keywords |-> << <<"a">>, <<"B">> >>],
      [name |-> <<"Box">>, category |-> "Sealed", rule_type |-> "include_any",
       include_keywords |-> << <<"b">> >>, exclude_keywords |-> <<>>,
       priority |-> 4, keywords |-> <<>>] }

SinglesRow(id, payload) ==
    [id |-> id, name |-> payload.name, category |-> payload.category,
     rule_type |-> payload.rule_type,
     include_keywords |-> payload.include_keywords,
     exclude_keywords |-> payload.exclude_keywords,
     priority |-> payload.priority, keywords |-> payload.keywords]

\* catalogs of MaxEntries different entries, in any insertion order
SinglesTables ==
    {[id \in 1..MaxEntries |-> SinglesRow(id, f[id])] :
        f \in {g \in [1..MaxEntries -> SinglesPayloads] :
                  \A i, j \in 1..MaxEntries : i # j => g[i] # g[j]}}

\* a singles run starts from a catalog and two unmapped transactions, as a
\* catalog run does
SInit ==
    /\ MIdle
    /\ catalog \in SinglesTables
    /\ \E item_name \in VNames : \E sale_type \in {"marketplace", "stream"} :
          txns = << NewTransaction(1, Some(1), "stream", item_name, 1, 6),
                    NewTransaction(2, None, sale_type, <<"A", "b">>, 1, 6) >>
    /\ rules = <<>>
    /\ shows = << [id |-> 1, total_cogs |-> 0, total_net_profit |-> 0] >>
    /\ last = NoLast
    /\ view = NoView
    /\ InventoryIdle
    /\ SessionsIdle

\* PUT /transactions/{transaction_id}/remap-catalog, both ids existing; the
\* response the client had before is kept in last.before
SRemap ==
    /\ \E id \in DOMAIN txns : \E catalog_id \in DOMAIN catalog :
          /\ txns' = [txns EXCEPT ![id] =
                         remap_transaction_catalog(txns[id], catalog[catalog_id])]
          /\ last' = [NoLast EXCEPT !.op = "remap", !.args = <<id, catalog_id>>,
                                    !.status = 200, !.before = view]
    /\ view' = NoView
    /\ UNCHANGED <<catalog, rules, shows, mvars, ivars, svars>>

\* select(ProductCatalog).where(category == "Singles")
SinglesQuery(catalogTable) ==
    {catalogTable[cid] : cid \in {c \in DOMAIN catalogTable :
                                     catalogTable[c].category = "Singles"}}

\* GET /singles
SGetSingles ==
    /\ \E singles \in OrderedByPriorityDesc(SinglesQuery(catalog)) :
          view' = get_singles_catalog(singles, txns)
    /\ UNCHANGED <<txns, catalog, rules, shows, last, mvars, ivars, svars>>

\* GET /singles/unmapped
SGetUnmapped ==
    /\ view' = get_unmapped_singles(catalog, txns)
    /\ UNCHANGED <<txns, catalog, rules, shows, last, mvars, ivars, svars>>

SNext == SRemap \/ SGetSingles \/ SGetUnmapped

SpecSingles == SInit /\ [][SNext]_vars

----------------------------------------------------------------------------
(* Bulk requests that fail: one save-product-COGS or mark-mapped request   *)
(* against a drawn database, with the statement at which the storage or    *)
(* the handler raises                                                       *)

\* "with Session(whatnot_engine) as session: yield session" left through an
\* exception: the session is closed without a commit, and what it flushed
\* and added is rolled back
CloseWithoutCommit_Keeps(stored, session) == session

CloseWithoutCommit(stored, session) == stored

\* the statements of save_product_cogs that write to the storage: the flush
\* after the rule is added, the show query that flushes the scanned
\* transactions, and the commit; "none" is the run in which none raises
SaveFailurePoints == {"none", "flush", "show_query", "commit"}

\* what the session of save_product_cogs holds when the statement raises
SaveSession(stored, product_name, cogs, keywords, fails_at) ==
    LET rule_id == SavedRuleId(stored.rules, product_name)
        ruleTable == SaveRule(stored.rules, product_name, cogs, keywords)
        table == SaveScan(stored.txns, cogs, keywords, rule_id)
        showTable == SaveShowTotals(stored.shows, table,
                                    AffectedShowIds(stored.txns, keywords))
    IN  CASE fails_at = "flush" ->
               [stored EXCEPT !.rules = ruleTable]
          [] fails_at = "show_query" ->
               [stored EXCEPT !.rules = ruleTable, !.txns = table]
          [] OTHER ->
               [rules |-> ruleTable, txns |-> table, shows |-> showTable]

\* POST /product-catalog/save-cogs
BSaveProductCogs ==
    /\ last.op = "none"
    /\ \E product_name \in ProductNames : \E cogs \in SaveCosts :
       \E keywords \in RSaveKeywordLists : \E fails_at \in SaveFailurePoints :
          LET stored == [rules |-> rules, txns |-> txns, shows |-> shows]
              session == SaveSession(stored, product_name, cogs, keywords, fails_at)
              after == IF fails_at = "none" THEN session
                       ELSE CloseWithoutCommit(stored, session)
              written == IF fails_at = "flush" THEN {}
                         ELSE SaveMatched(txns, keywords)
          IN  /\ rules' = after.rules
              /\ txns' = after.txns
              /\ shows' = after.shows
              /\ last' = [RServed("save_product_cogs",
                                  <<product_name, cogs, keywords, fails_at>>,
                                  IF fails_at = "none" THEN 200 ELSE 500,
                                  written)
                             EXCEPT !.result =
                                IF fails_at = "none"
                                THEN SaveResponse(product_name,
                                                  Cardinality(written))
                                ELSE <<>>]
    /\ UNCHANGED <<catalog, view, mvars, ivars, svars>>

\* POST /product-catalog/{catalog_id}/mark-mapped for an entry that exists:
\* the first transaction that reaches the loop body is written on the
\* session before "matched_count += 1" raises
BMarkMapped ==
    /\ last.op = "none"
    /\ \E catalog_id \in DOMAIN catalog :
          LET hits == MarkHits(txns, catalog[catalog_id])
              stored == [rules |-> rules, txns |-> txns, shows |-> shows]
          IN  IF hits = {}
              THEN /\ txns' = txns
                   /\ last' = [RServed("mark_mapped", <<catalog_id>>, 200, {})
                                  EXCEPT !.result = <<0>>]
              ELSE \E id \in hits :
                      LET session == [stored EXCEPT !.txns[id] =
                                         MarkWrite(txns[id], catalog[catalog_id])]
                      IN  /\ txns' = CloseWithoutCommit(stored, session).txns
                          /\ last' = RServed("mark_mapped", <<catalog_id>>,
                                             500, {id})
    /\ UNCHANGED <<rules, shows, catalog, view, mvars, ivars, svars>>

BNext == BSaveProductCogs \/ BMarkMapped

SpecBulk == RInit /\ [][BNext]_vars

----------------------------------------------------------------------------
(* Two save-product-COGS requests served by two server processes on the    *)
(* same SQLite file.  A session reads outside a transaction; its first     *)
(* INSERT or UPDATE begins one and takes the write lock of the file, which *)
(* it holds until its commit.  Objects a session has loaded keep their     *)
(* attribute values when a later query returns the same rows, and a flush  *)
(* updates only the columns whose value differs from the loaded one.       *)

\* save_product_cogs run from its first to its last statement
SaveRun(stored, product_name, cogs, keywords) ==
    LET rule_id == SavedRuleId(stored.rules, product_name)
        table == SaveScan(stored.txns, cogs, keywords, rule_id)
    IN  [rules |-> SaveRule(stored.rules, product_name, cogs, keywords),
         txns |-> table,
         shows |-> SaveShowTotals(stored.shows, table,
                                  AffectedShowIds(stored.txns, keywords))]

\* the names of the two products saved
ConcurrentNames == { <<"P">>, <<"Q">> }

\* UPDATE ... SET for the columns of mem that differ from loaded
FlushRow(row, loaded, mem) ==
    [f \in DOMAIN row |-> IF mem[f] # loaded[f] THEN mem[f] ELSE row[f]]

OtherLocked(s) == \E o \in DOMAIN sessions : o # s /\ sessions[o].locked

\* the rule step of the request would write: the flush of a new rule, or
\* the autoflush of an existing rule with a changed column
RuleStepWrites(s) ==
    SaveRule(rules, sessions[s].product_name, sessions[s].cogs,
             sessions[s].keywords) # rules

\* the stored state from which the two requests start: the drawn database,
\* possibly after an earlier save of product P
KStoredStates ==
    LET bases ==
          {LET table == <<RImported(item_name), ROverridden(sale_type)>>
           IN  [rules |-> <<RRule>>,
                txns |-> table,
                shows |-> compute_show_aggregates(
                             << [id |-> 1, total_cogs |-> 0, total_net_profit |-> 0] >>,
                             table, 1)] :
             item_name \in VNames, sale_type \in {"marketplace", "stream"}}
    IN  bases \cup {SaveRun(b, <<"P">>, cogs, keywords) :
                      b \in bases, cogs \in SaveCosts, keywords \in SaveKeywordLists}

\* two requests with different costs have arrived; last.before keeps the
\* stored state they found
KInit ==
    /\ MIdle
    /\ CatalogIdle
    /\ InventoryIdle
    /\ view = NoView
    /\ \E stored \in KStoredStates :
          /\ rules = stored.rules
          /\ txns = stored.txns
          /\ shows = stored.shows
          /\ last = [NoLast EXCEPT !.before = stored]
    /\ \E product_name \in ConcurrentNames :
       \E cogs1, cogs2 \in SaveCosts :
       \E keywords1, keywords2 \in SaveKeywordLists :
          /\ cogs1 # cogs2
          /\ sessions =
               << [pc |-> "start", product_name |-> <<"P">>, cogs |-> cogs1,
                   keywords |-> keywords1, rule_id |-> 0, loaded |-> <<>>,
                   locked |-> FALSE],
                  [pc |-> "start", product_name |-> product_name, cogs |-> cogs2,
                   keywords |-> keywords2, rule_id |-> 0, loaded |-> <<>>,
                   locked |-> FALSE] >>

\* save_product_cogs up to the query that loads the transactions
KLoad(s) ==
    /\ sessions[s].pc = "start"
    /\ RuleStepWrites(s) => ~OtherLocked(s)
    /\ sessions' = [sessions EXCEPT
                      ![s].pc = "loaded",
                      ![s].rule_id = SavedRuleId(rules, sessions[s].product_name),
                      ![s].loaded = txns,
                      ![s].locked = RuleStepWrites(s)]
    /\ UNCHANGED <<txns, rules, shows, last, catalog, view, mvars, ivars>>

\* save_product_cogs from the scan to the commit: the scan changes the
\* loaded objects, the show totals are summed over the loaded objects, the
\* flush writes the changed columns and the commit releases the lock
KWrite(s) ==
    /\ sessions[s].pc = "loaded"
    /\ ~OtherLocked(s)
    /\ LET a == sessions[s]
           mem == SaveScan(a.loaded, a.cogs, a.keywords, a.rule_id)
       IN  /\ rules' = IF a.locked
                       THEN SaveRule(rules, a.product_name, a.cogs, a.keywords)
                       ELSE rules
           /\ txns' = [id \in DOMAIN txns |->
                          FlushRow(txns[id], a.loaded[id], mem[id])]
           /\ shows' = SaveShowTotals(shows, mem,
                                      AffectedShowIds(a.loaded, a.keywords))
    /\ sessions' = [sessions EXCEPT ![s].pc = "done", ![s].locked = FALSE]
    /\ UNCHANGED <<last, catalog, view, mvars, ivars>>

\* the write lock is not released within the busy timeout: the statement
\* raises "database is locked" and the session is closed without a commit
KBusy(s) ==
    /\ OtherLocked(s)
    /\ \/ sessions[s].pc = "start" /\ RuleStepWrites(s)
       \/ sessions[s].pc = "loaded"
    /\ sessions' = [sessions EXCEPT ![s].pc = "failed"]
    /\ UNCHANGED <<txns, rules, shows, last, catalog, view, mvars, ivars>>

KNext == \E s \in {1, 2} : KLoad(s) \/ KWrite(s) \/ KBusy(s)

SpecConcurrent == KInit /\ [][KNext]_vars

----------------------------------------------------------------------------
(* Requests with credentials: the dependencies of api/deps.py in front of  *)
(* two read and two write endpoints, one request against a drawn database  *)

\* settings.admin_key
admin_key == "1453"

\* the users table: an admin, a user, and a user whose account is disabled
Users ==
    << [id |-> 1, role |-> "admin", is_active |-> TRUE],
       [id |-> 2, role |-> "user", is_active |-> TRUE],
       [id |-> 3, role |-> "user", is_active |-> FALSE] >>

\* what the Authorization header can carry: nothing, the admin key, a string
\* that is no token, and signed tokens for the users 1, 2, 3 and for a user
\* that is no longer stored
Tokens == {"", "1453", "invalidtoken", "jwt1", "jwt2", "jwt3", "jwt4"}

\* decode_access_token: the user id of a signed token, or None
decode_access_token(token) ==
    CASE token = "jwt1" -> Some(1)
      [] token = "jwt2" -> Some(2)
      [] token = "jwt3" -> Some(3)
      [] token = "jwt4" -> Some(4)
      [] OTHER -> None

\* raise HTTPException(status_code = status)
Raised(status) == [raised |-> TRUE, status |-> status]
Returned(user) == [raised |-> FALSE, user |-> user]

\* select(User).where(User.role == UserRole.ADMIN).limit(1)
FirstAdmin ==
    LET admins == {i \in DOMAIN Users : Users[i].role = "admin"}
    IN  IF admins = {} THEN None
        ELSE Some(CHOOSE i \in admins : \A j \in admins : i <= j)

get_current_user(token) ==
    IF token = "" THEN Raised(401)
    ELSE IF token = admin_key
         THEN IF FirstAdmin # None THEN Returned(Users[Val(FirstAdmin)])
              ELSE Raised(401)
    ELSE LET token_data == decode_access_token(token)
         IN  IF token_data = None THEN Raised(401)
             ELSE IF Val(token_data) \notin DOMAIN Users THEN Raised(401)
             ELSE IF ~Users[Val(token_data)].is_active THEN Raised(403)
             ELSE Returned(Users[Val(token_data)])

\* the user, or None when there is no token or get_current_user raised
get_optional_user(token) ==
    IF token = "" THEN None
    ELSE IF get_current_user(token).raised THEN None
    ELSE Some(get_current_user(token).user)

get_current_admin_user(token) ==
    LET current_user == get_current_user(token)
    IN  IF current_user.raised THEN current_user
        ELSE IF current_user.user.role # "admin" THEN Raised(403)
        ELSE current_user

\* the ids list_transactions returns for a sale_type filter (None: no filter)
list_transactions(table, sale_type) ==
    {id \in InScopeIds(table) :
        sale_type # None => table[id].sale_type = Val(sale_type)}

\* GET /product-catalog with current_user: OptionalUser
GGetProductCatalog ==
    /\ last.op = "none"
    /\ \E token \in Tokens :
       \E current_user \in {get_optional_user(token)} :
       \E catalog_items \in OrderedByPriorityDesc(Range(catalog)) :
          /\ view' = get_product_catalog(catalog_items, txns)
          /\ last' = RServed("get_product_catalog", <<token>>, 200, {})
    /\ UNCHANGED <<txns, rules, shows, catalog, mvars, ivars, svars>>

\* GET /transactions with current_user: OptionalUser
GListTransactions ==
    /\ last.op = "none"
    /\ \E token \in Tokens :
       \E current_user \in {get_optional_user(token)} :
       \E sale_type \in {None, Some("stream"), Some("marketplace")} :
          last' = [RServed("list_transactions", <<token>>, 200, {})
                      EXCEPT !.result = list_transactions(txns, sale_type)]
    /\ UNCHANGED <<txns, rules, shows, catalog, view, mvars, ivars, svars>>

\* DELETE /cogs-rules/{rule_id} with current_user: AdminUser
GDeleteRule ==
    /\ last.op = "none"
    /\ \E token \in Tokens : \E rule_id \in RIds(RuleIds(rules)) :
          LET current_user == get_current_admin_user(token)
          IN  IF current_user.raised
              THEN /\ rules' = rules
                   /\ txns' = txns
                   /\ last' = RServed("delete_rule", <<token, rule_id>>,
                                      current_user.status, {})
              ELSE IF rule_id \in RuleIds(rules)
              THEN /\ rules' = WithoutRule(rules, rule_id)
                   /\ txns' = DeleteRuleRefs(txns, rule_id)
                   /\ last' = RServed("delete_rule", <<token, rule_id>>, 204, {})
              ELSE /\ rules' = rules
                   /\ txns' = txns
                   /\ last' = RServed("delete_rule", <<token, rule_id>>, 404, {})
    /\ UNCHANGED <<shows, catalog, view, mvars, ivars, svars>>

\* PUT /transactions/{transaction_id}/remap-catalog with
\* current_user: AdminUser = None: the dependency runs whatever the default
GRemap ==
    /\ last.op = "none"
    /\ \E token \in Tokens :
       \E id \in RIds(DOMAIN txns) : \E catalog_id \in RIds(DOMAIN catalog) :
          LET current_user == get_current_admin_user(token)
          IN  IF current_user.raised
              THEN /\ txns' = txns
                   /\ last' = RServed("remap", <<token, id, catalog_id>>,
                                      current_user.status, {})
              ELSE IF id \in DOMAIN txns /\ catalog_id \in DOMAIN catalog
              THEN /\ txns' = [txns EXCEPT ![id] =
                                  remap_transaction_catalog(txns[id],
                                                            catalog[catalog_id])]
                   /\ last' = RServed("remap", <<token, id, catalog_id>>, 200, {})
              ELSE /\ txns' = txns
                   /\ last' = RServed("remap", <<token, id, catalog_id>>, 404, {})
    /\ UNCHANGED <<rules, shows, catalog, view, mvars, ivars, svars>>

GNext == GGetProductCatalog \/ GListTransactions \/ GDeleteRule \/ GRemap

SpecAccess == RInit /\ [][GNext]_vars

----------------------------------------------------------------------------
(* Claims about the matcher *)

\* k occurs in s: s is some text, then k, then some text
OccursIn(k, s) ==
    \E a \in 0..Len(s) : \E b \in a..Len(s) : SubSeq(s, a + 1, b) = k
IsPrefixOf(k, s) == \E b \in 0..Len(s) : SubSeq(s, 1, b) = k
IsSuffixOf(k, s) == \E a \in 0..Len(s) : SubSeq(s, a + 1, Len(s)) = k

\* the rule has a keyword (lower-cased and trimmed) that matches the name
\* under the rule's match mode
RuleHoldsOn(r, name) ==
    \E i \in 1..Len(r.keywords) :
        LET k == Strip(Lower(r.keywords[i]))
        IN  \/ r.match_type = "contains" /\ OccursIn(k, name)
            \/ r.match_type = "starts_with" /\ IsPrefixOf(k, name)
            \/ r.match_type = "ends_with" /\ IsSuffixOf(k, name)
            \/ r.match_type = "exact" /\ k = name

ActiveMatching(tbl, name) ==
    {r \in Range(tbl) : r.is_active /\ RuleHoldsOn(r, name)}

\* C1: match_cogs_rule returns the id and cost of an active rule that matches
\* the normalized name and whose priority is maximal among the active rules
\* that match, whatever the insertion order; it returns (None, None) exactly
\* when no active rule matches.
C1_MatchReturnsMaxPriority ==
    mPc = "done" =>
        LET name == normalize_product_name(mName)
            matching == ActiveMatching(mRules, name)
        IN  /\ (mResult = <<None, None>>) <=> (matching = {})
            /\ matching # {} =>
                  \E r \in matching :
                      /\ mResult = <<Some(r.id), Some(r.cogs_amount)>>
                      /\ \A q \in matching : q.priority <= r.priority

\* two active rules match, the one inserted first has the lower priority, and
\* the call returned the one inserted second
C1_Witness ==
    /\ mPc = "done"
    /\ \E r, q \in ActiveMatching(mRules, normalize_product_name(mName)) :
          /\ r.id > q.id
          /\ r.priority > q.priority
          /\ mResult = <<Some(r.id), Some(r.cogs_amount)>>

\* no rule matches and the call returned (None, None)
C1_WitnessNoMatch ==
    /\ mPc = "done"
    /\ \E r \in Range(mRules) : r.is_active
    /\ ActiveMatching(mRules, normalize_product_name(mName)) = {}
    /\ mResult = <<None, None>>

\* C8: an inactive rule is never returned, whatever its priority and
\* keywords: a rule that toggle_cogs_rule switched off is not assigned, and
\* when an active rule matches, an active rule is returned instead.
C8_InactiveNeverReturned ==
    mPc = "done" =>
        LET name == normalize_product_name(mName)
        IN  /\ \A r \in Range(mRules) :
                  ~r.is_active => mResult[1] # Some(r.id)
            /\ ActiveMatching(mRules, name) # {} =>
                  \E r \in ActiveMatching(mRules, name) : mResult[1] = Some(r.id)

\* a matching rule of higher priority was switched off by toggle_cogs_rule
\* and the call returned a matching active rule of lower priority
C8_Witness ==
    /\ mPc = "done"
    /\ \E off \in Range(mRules) : \E on \in Range(mRules) :
          /\ ~off.is_active
          /\ RuleHoldsOn(off, normalize_product_name(mName))
          /\ on.is_active
          /\ on.priority < off.priority
          /\ mResult = <<Some(on.id), Some(on.cogs_amount)>>

\* letters, digits, whitespace and hyphen: everything but punctuation
NotPunctuation(c) ==
    c \in LowerLetters \cup UpperLetters \cup Digits \cup Whitespace \cup Hyphen

\* the two texts have the same characters and differ only in case or
\* punctuation
SameUpToCaseAndPunctuation(k, n) ==
    Lower(SelectSeq(k, NotPunctuation)) = Lower(SelectSeq(n, NotPunctuation))

\* C9: a contains-mode rule matches every item name that has the same
\* characters as its keyword and differs from it only in case or punctuation,
\* whether the punctuation is in the name or in the keyword.
C9_NormalizationSymmetry ==
    (mPc = "done" /\ SameUpToCaseAndPunctuation(mRules[1].keywords[1], mName))
        => mResult = <<Some(1), Some(10)>>

----------------------------------------------------------------------------
(* Claims about the COGS application engine *)

Abs(x) == IF x < 0 THEN -x ELSE x

\* roi is net_profit / cogs x 100 to the precision kept: it is 100 times a
\* quotient that lies within half a unit of the last digit of net_profit / cogs
IsRoiOf(roi, net_profit, cogs) ==
    /\ roi % 100 = 0
    /\ 2 * Abs((roi \div 100) * cogs - net_profit * Pow10(DecimalDigits)) <= cogs

\* C2: apply_cogs_to_transaction(transaction, unitCost, ruleId) sets
\* cogs = unitCost x quantity, matched_cogs_rule_id = ruleId,
\* net_profit = net_earnings - cogs, and roi_percent = net_profit / cogs x 100
\* when cogs > 0; quantity 3, unit cost 10 and net earnings 45 give cogs 30,
\* net profit 15 and ROI 50.00; quantity 2, unit cost 15 and net earnings 28
\* give cogs 30, net profit -2 and a negative ROI.
C2_ApplyArithmetic ==
    last.op = "apply" =>
        LET t == txns[1]
            unitCost == last.args[1]
            ruleId == last.args[2]
        IN  /\ t.cogs = Some(unitCost * t.quantity)
            /\ t.matched_cogs_rule_id = ruleId
            /\ t.net_profit = Some(t.net_earnings - Val(t.cogs))
            /\ Val(t.cogs) > 0 =>
                  /\ t.roi_percent # None
                  /\ IsRoiOf(Val(t.roi_percent), Val(t.net_profit), Val(t.cogs))
            /\ (t.quantity = 3 /\ unitCost = 10 /\ t.net_earnings = 45) =>
                  /\ t.cogs = Some(30)
                  /\ t.net_profit = Some(15)
                  /\ t.roi_percent = Some(50 * Pow10(DecimalDigits))
            /\ (t.quantity = 2 /\ unitCost = 15 /\ t.net_earnings = 28) =>
                  /\ t.cogs = Some(30)
                  /\ t.net_profit = Some(-2)
                  /\ t.roi_percent # None
                  /\ Val(t.roi_percent) < 0

\* the call on quantity 2, unit cost 15, net earnings 28 has run and left a
\* loss with a negative ROI
C2_Witness ==
    /\ last.op = "apply"
    /\ last.args = <<15, Some(5)>>
    /\ txns[1].quantity = 2
    /\ txns[1].net_earnings = 28
    /\ txns[1].net_profit = Some(-2)
    /\ txns[1].roi_percent # None
    /\ Val(txns[1].roi_percent) < 0

----------------------------------------------------------------------------
(* Claims about the bulk save and the show totals *)

\* C3: running save-product-COGS twice in a row with the same product name,
\* cost and keywords leaves the state the first run left: the second run
\* changes no transaction, no show total and no rule (it updates the
\* auto-generated rule instead of creating a second one).
C3_BulkSaveIdempotent ==
    [][(last'.op = "save_product_cogs" /\ last'.twice)
          => (txns' = txns /\ shows' = shows /\ rules' = rules)]_vars

\* the second of two identical runs has completed; the runs wrote a positive
\* COGS to a transaction of a show
C3_Witness ==
    /\ last.op = "save_product_cogs"
    /\ last.twice
    /\ \E id \in last.touched :
          /\ txns[id].show_id # None
          /\ txns[id].cogs # None
          /\ Val(txns[id].cogs) > 0
          /\ shows[Val(txns[id].show_id)].total_cogs > 0

RECURSIVE TotalOf(_, _, _)
\* the sum of a nullable column over the transactions of a show, null as 0,
\* taken in id order up to id n
TotalOf(field, show_id, n) ==
    IF n = 0 THEN 0
    ELSE TotalOf(field, show_id, n - 1) +
         (IF n \in DOMAIN txns /\ txns[n].show_id = Some(show_id)
             /\ txns[n][field] # None
          THEN txns[n][field][1] ELSE 0)

MaxTxnId == IF DOMAIN txns = {} THEN 0 ELSE Max(DOMAIN txns)

\* C4: after save-product-COGS, every show with a transaction the run wrote
\* to has total_cogs equal to the sum of cogs and total_net_profit equal to
\* the sum of net_profit over all the transactions attached to it, null as 0.
C4_ShowTotalsAfterSave ==
    last.op = "save_product_cogs" =>
        \A id \in last.touched :
            (txns[id].show_id # None /\ Val(txns[id].show_id) \in DOMAIN shows) =>
                LET sid == Val(txns[id].show_id)
                IN  /\ shows[sid].total_cogs = TotalOf("cogs", sid, MaxTxnId)
                    /\ shows[sid].total_net_profit =
                          TotalOf("net_profit", sid, MaxTxnId)

\* the run wrote to one transaction of a show whose other transaction holds a
\* manual COGS the show totals did not include before the run
C4_Witness ==
    /\ last.op = "save_product_cogs"
    /\ \E id \in last.touched : \E other \in DOMAIN txns \ last.touched :
          /\ txns[id].show_id # None
          /\ txns[other].show_id = txns[id].show_id
          /\ txns[other].cogs # None
          /\ Val(txns[other].cogs) > 0
          /\ Val(txns[id].cogs) > 0
          /\ shows[Val(txns[id].show_id)].total_cogs =
                Val(txns[id].cogs) + Val(txns[other].cogs)

\* C10: whenever a COGS-setting operation (rule apply, manual override,
\* bulk save) leaves a transaction with cogs = 0, its roi_percent is null
\* afterwards, also when it held a ROI before.
C10_ZeroCogsNullRoi ==
    \A id \in last.touched :
        txns[id].cogs = Some(0) => txns[id].roi_percent = None

----------------------------------------------------------------------------
(* Claims about the product-catalog view *)

\* the transaction carries a manual mapping to an entry of the catalog
ValidManual(t) ==
    /\ t.is_mapped
    /\ t.catalog_item_id # None
    /\ Val(t.catalog_item_id) \in DOMAIN catalog

\* the entry's rule on the lower-cased item name, stated from the rule kinds:
\* k ranges over the lower-cased keywords of a list
HasKeyword(keywords, name) ==
    \E i \in DOMAIN keywords : OccursIn(Lower(keywords[i]), Lower(name))

EntryRuleHolds(e, name) ==
    \/ /\ e.rule_type = "include_any"
       /\ HasKeyword(e.include_keywords, name)
    \/ /\ e.rule_type = "include_all"
       /\ \A i \in DOMAIN e.include_keywords :
             OccursIn(Lower(e.include_keywords[i]), Lower(name))
    \/ /\ e.rule_type = "include_and_exclude"
       /\ HasKeyword(e.include_keywords, name)
       /\ ~HasKeyword(e.exclude_keywords, name)

\* the entries that are not catch_all and whose rule holds on the name
HoldingEntries(name) ==
    {cid \in DOMAIN catalog : EntryRuleHolds(catalog[cid], name)}

CatchAllEntries == {cid \in DOMAIN catalog : catalog[cid].rule_type = "catch_all"}

\* the in-scope transactions the view counted under the entry cid
CountedUnder(cid) == {id \in DOMAIN view.matches : view.matches[id] = Some(cid)}

\* C5: in the product-catalog view, a transaction with is_mapped = true and
\* a catalog_item_id that references an existing entry A is resolved to A
\* whatever its item name keyword-matches; it is counted under A and under
\* no other entry.
C5_ManualMappingWins ==
    view.computed =>
        \A id \in InScopeIds(txns) :
            ValidManual(txns[id]) =>
                /\ view.matches[id] = txns[id].catalog_item_id
                /\ \A cid \in DOMAIN catalog :
                      view.sales[cid] = Cardinality(CountedUnder(cid))
                /\ \A cid \in DOMAIN catalog :
                      id \in CountedUnder(cid) <=> Some(cid) = txns[id].catalog_item_id

\* a view in which a transaction manually mapped to A has an item name that
\* holds for another entry B of higher priority than A
C5_Witness ==
    /\ view.computed
    /\ \E id \in InScopeIds(txns) : \E B \in DOMAIN catalog :
          /\ ValidManual(txns[id])
          /\ B # Val(txns[id].catalog_item_id)
          /\ B \in HoldingEntries(txns[id].item_name)
          /\ catalog[B].priority > catalog[Val(txns[id].catalog_item_id)].priority
          /\ view.sales[Val(txns[id].catalog_item_id)] >= 1

\* C6: in the product-catalog view, a transaction that has no valid manual
\* mapping and for which no non-catch-all entry holds is assigned to the
\* catch_all entry when one exists; when none exists it is counted under no
\* entry, and the view is produced all the same.
C6_CatchAllFallback ==
    view.computed =>
        \A id \in InScopeIds(txns) :
            (~ValidManual(txns[id]) /\ HoldingEntries(txns[id].item_name) = {}) =>
                /\ CatchAllEntries # {} =>
                      \E cid \in CatchAllEntries :
                          /\ view.matches[id] = Some(cid)
                          /\ id \in CountedUnder(cid)
                          /\ view.sales[cid] >= 1
                /\ CatchAllEntries = {} =>
                      /\ view.matches[id] = None
                      /\ \A cid \in DOMAIN catalog : id \notin CountedUnder(cid)
                /\ \A cid \in DOMAIN catalog :
                      view.sales[cid] = Cardinality(CountedUnder(cid))

\* a view that assigned a transaction to the catch_all entry by fallback
C6_Witness ==
    /\ view.computed
    /\ \E id \in InScopeIds(txns) : \E cid \in CatchAllEntries :
          /\ ~ValidManual(txns[id])
          /\ HoldingEntries(txns[id].item_name) = {}
          /\ view.matches[id] = Some(cid)

\* a view of a catalog without a catch_all entry that left a transaction
\* out of every count
C6_WitnessUnmapped ==
    /\ view.computed
    /\ CatchAllEntries = {}
    /\ catalog # <<>>
    /\ \E id \in InScopeIds(txns) :
          /\ ~ValidManual(txns[id])
          /\ HoldingEntries(txns[id].item_name) = {}
          /\ view.matches[id] = None

\* C7: in the keyword pass, a transaction without a valid manual mapping
\* resolves to a non-catch-all entry of the highest priority among those
\* whose rule (include_any, include_all, include_and_exclude) holds on the
\* lower-cased item name; no entry of lower priority is chosen when the
\* rule of a higher-priority entry holds, no entry whose rule does not hold
\* is chosen, and no catch_all entry is chosen while some rule holds.
C7_KeywordPassPriority ==
    view.computed =>
        \A id \in InScopeIds(txns) :
            ~ValidManual(txns[id]) =>
                LET H == HoldingEntries(txns[id].item_name)
                IN  /\ H # {} =>
                          \E cid \in H :
                              /\ view.matches[id] = Some(cid)
                              /\ \A o \in H : catalog[o].priority <= catalog[cid].priority
                    /\ H = {} =>
                          \A cid \in DOMAIN catalog :
                              view.matches[id] = Some(cid) =>
                                  catalog[cid].rule_type = "catch_all"

\* a view that chose, for a transaction without manual mapping, the higher
\* of two entries whose rules both hold, with a catch_all entry of still
\* higher priority present or the lower entry inserted first
C7_Witness ==
    /\ view.computed
    /\ \E id \in InScopeIds(txns) : \E hi, lo \in HoldingEntries(txns[id].item_name) :
          /\ ~ValidManual(txns[id])
          /\ catalog[lo].priority < catalog[hi].priority
          /\ lo < hi
          /\ view.matches[id] = Some(hi)

----------------------------------------------------------------------------
(* Claims about the manual override and the recalculation *)

\* the four COGS columns of a row
CogsFields(t) == <<t.cogs, t.net_profit, t.roi_percent, t.matched_cogs_rule_id>>

\* C11: after update_transaction with a cogs value, matched_cogs_rule_id is
\* null whatever it held before, cogs is the supplied total, net_profit is
\* net_earnings - cogs and roi_percent is net_profit / cogs x 100 for
\* cogs > 0 and null otherwise, as in rule application; an update without a
\* cogs value leaves the four COGS columns as they were.
C11_ManualOverrideClearsRule ==
    last.op = "update_transaction" =>
        LET t == txns[last.args[1]]
            cogs == last.args[2]
        IN  /\ cogs # None =>
                  /\ t.cogs = cogs
                  /\ t.matched_cogs_rule_id = None
                  /\ t.net_profit = Some(t.net_earnings - Val(cogs))
                  /\ Val(cogs) > 0 =>
                        /\ t.roi_percent # None
                        /\ IsRoiOf(Val(t.roi_percent), Val(t.net_profit), Val(cogs))
                  /\ Val(cogs) <= 0 => t.roi_percent = None
                  /\ CogsFields(t) =
                        CogsFields(apply_cogs_to_transaction(
                                     [last.before EXCEPT !.quantity = 1], Val(cogs), None))
            /\ cogs = None => CogsFields(t) = CogsFields(last.before)

\* a manual override of a transaction that carried the id of a rule
C11_Witness ==
    /\ last.op = "update_transaction"
    /\ last.args[2] = Some(4)
    /\ last.before.matched_cogs_rule_id # None
    /\ txns[last.args[1]].matched_cogs_rule_id = None

\* an update without a cogs value on a transaction that carries COGS
C11_WitnessNotesOnly ==
    /\ last.op = "update_transaction"
    /\ last.args[2] = None
    /\ last.before.cogs # None

C13_RecalculateOverwrites ==
    last.op = "recalculate" =>
        LET t == txns[last.args[1]]
            matching == ActiveMatching(rules, normalize_product_name(t.item_name))
        IN  /\ matching # {} =>
                  \E r \in matching :
                      /\ t.cogs = Some(r.cogs_amount * t.quantity)
                      /\ t.matched_cogs_rule_id = Some(r.id)
                      /\ \A o \in matching : o.priority <= r.priority
            /\ matching = {} => CogsFields(t) = <<None, None, None, None>>

\* a recalculation that cleared a manual override because no rule matched
C13_Witness ==
    /\ last.op = "recalculate"
    /\ last.before.cogs = Some(4)
    /\ last.before.matched_cogs_rule_id = None
    /\ CogsFields(txns[last.args[1]]) = <<None, None, None, None>>

\* a recalculation that replaced a manual override by the cost of a rule
C13_WitnessMatch ==
    /\ last.op = "recalculate"
    /\ last.before.cogs = Some(4)
    /\ last.before.matched_cogs_rule_id = None
    /\ txns[last.args[1]].matched_cogs_rule_id # None
    /\ txns[last.args[1]].cogs # Some(4)

----------------------------------------------------------------------------
(* Claims about the stored profit and the show totals after any operation *)

\* C16: after every operation that sets a transaction's cogs (rule apply at
\* import, manual override, recalculate with a match, bulk save), the stored
\* net_profit of each transaction it wrote to equals net_earnings minus the
\* stored cogs, also for net_earnings = 0 and for a transaction that carried
\* a net_profit from an earlier COGS value.
C16_NetProfitConsistent ==
    \A id \in last.touched :
        txns[id].cogs # None =>
            txns[id].net_profit = Some(txns[id].net_earnings - Val(txns[id].cogs))

\* C17: after a manual COGS override or a recalculate of one transaction, as
\* after a bulk save, the show of every transaction the request named or
\* wrote to has total_cogs equal to the sum of cogs and total_net_profit
\* equal to the sum of net_profit over the show's transactions, null as 0.
C17_ShowTotalsFollowTransactions ==
    last.op \in {"update_transaction", "recalculate", "save_product_cogs"} =>
        \A sid \in DOMAIN shows :
            (\E id \in DOMAIN txns :
                /\ txns[id].show_id = Some(sid)
                /\ \/ id \in last.touched
                   \/ last.op # "save_product_cogs" /\ last.args[1] = id) =>
                /\ shows[sid].total_cogs = TotalOf("cogs", sid, MaxTxnId)
                /\ shows[sid].total_net_profit = TotalOf("net_profit", sid, MaxTxnId)

----------------------------------------------------------------------------
(* Claims about the bulk mark-mapped action *)

\* the four catalog columns of a row
MappingFields(t) == <<t.catalog_item_id, t.is_mapped, t.matched_keyword, t.mapped_at>>

\* the item name contains one of the entry's keywords, case ignored
NameHasKeywordOf(t, e) ==
    \E k \in DOMAIN e.keywords : OccursIn(Lower(e.keywords[k]), Lower(t.item_name))

C15_MarkMappedPersists ==
    (last.op = "mark_mapped" /\ last.status # 404) =>
        LET E == last.args[1]
            due == {id \in InScopeIds(txns) :
                       /\ NameHasKeywordOf(txns[id], catalog[E])
                       /\ ~(txns[id].is_mapped /\ txns[id].catalog_item_id # Some(E))}
        IN  /\ last.status = 200
            /\ \A id \in due :
                  /\ txns[id].is_mapped
                  /\ txns[id].catalog_item_id = Some(E)
                  /\ txns[id].matched_keyword # None
                  /\ txns[id].mapped_at # None
            /\ last.result = <<Cardinality(due)>>

----------------------------------------------------------------------------
(* Claims about the independence of the two classifiers and about requests *)
(* that are refused                                                         *)

CogsOperations ==
    {"update_transaction", "recalculate", "save_product_cogs", "import_marketplace",
     "create_rule", "update_rule", "delete_rule", "toggle_rule"}

CatalogOperations ==
    {"remap", "mark_mapped", "add_catalog_item", "update_catalog_item",
     "delete_catalog_item"}

\* C18: no COGS operation (rule apply, manual override, recalculate, bulk
\* save, rule create/update/delete/toggle) changes catalog_item_id,
\* is_mapped, matched_keyword or mapped_at of a transaction or any catalog
\* entry; no catalog operation (remap, mark-mapped, entry
\* create/update/delete) changes cogs, net_profit, roi_percent or
\* matched_cogs_rule_id of a transaction, any COGS rule or any show total.
C18_ClassifiersIndependent ==
    [][/\ last'.op \in CogsOperations =>
             /\ catalog' = catalog
             /\ \A id \in DOMAIN txns :
                   MappingFields(txns'[id]) = MappingFields(txns[id])
       /\ last'.op \in CatalogOperations =>
             /\ rules' = rules
             /\ shows' = shows
             /\ \A id \in DOMAIN txns :
                   CogsFields(txns'[id]) = CogsFields(txns[id])]_vars

\* a bulk save that wrote COGS to a transaction that is mapped to an entry
C18_Witness ==
    /\ last.op = "save_product_cogs"
    /\ \E id \in last.touched :
          /\ txns[id].is_mapped
          /\ txns[id].catalog_item_id # None
          /\ txns[id].matched_cogs_rule_id # Some(1)

\* a remap, served with success, of a transaction that carries the COGS and
\* the id of a rule
C18_WitnessRemap ==
    /\ last.op = "remap"
    /\ last.status = 200
    /\ txns[last.args[1]].catalog_item_id = Some(last.args[2])
    /\ txns[last.args[1]].matched_cogs_rule_id = Some(1)
    /\ txns[last.args[1]].cogs = Some(2)

\* the request names a transaction, rule, catalog entry or master card that
\* is not stored
NamesMissingId(op, args) ==
    \/ op \in {"update_transaction", "recalculate", "remap"} /\ args[1] \notin DOMAIN txns
    \/ op \in {"update_rule", "delete_rule", "toggle_rule"} /\ args[1] \notin RuleIds(rules)
    \/ op \in {"mark_mapped", "delete_catalog_item", "update_catalog_item"}
          /\ args[1] \notin DOMAIN catalog
    \/ op = "remap" /\ args[2] \notin DOMAIN catalog
    \/ op = "create_inventory_item" /\ args[1] \notin DOMAIN master_cards

C19_WitnessMarkMapped ==
    /\ last.op = "mark_mapped"
    /\ last.args[1] \notin DOMAIN catalog
    /\ last.status = 404
    /\ \E id \in InScopeIds(txns) : ~txns[id].is_mapped

\* an inventory item requested for a master card that is not stored
C19_WitnessInventory ==
    /\ last.op = "create_inventory_item"
    /\ last.args[1] \notin DOMAIN master_cards
    /\ last.status = 404
    /\ inventory_items = <<>>

\* C20: no request stores a COGS rule whose keyword list is empty: after
\* create_cogs_rule, update_cogs_rule or save-product-COGS every stored rule
\* has at least one keyword.
C20_NoRuleWithoutKeywords ==
    \A i \in DOMAIN rules : rules[i].keywords # <<>>

----------------------------------------------------------------------------
(* Claims about the normalizer *)

\* only lower-case letters, digits, hyphens and single blanks, with no blank
\* at either end
IsNormalForm(s) ==
    /\ \A i \in 1..Len(s) :
          s[i] \in {"a", "b", "c", "x", "1", "2", "-", " "}
    /\ \A i \in 1..Len(s) : s[i] = " " => (1 < i /\ i < Len(s) /\ s[i + 1] # " ")

\* C24: normalize_product_name returns, for every string, a string of
\* lower-case ASCII letters, digits, single spaces and hyphens without a
\* leading or trailing space (the empty string for an empty or
\* whitespace-only input), and normalizing its result returns the result.
C24_NormalizeIdempotent ==
    /\ mPc \in {"once", "twice"} => IsNormalForm(mResult)
    /\ (mPc = "once" /\ \A i \in 1..Len(mName) : mName[i] \in {" ", "\t"}) =>
          mResult = <<>>
    /\ mPc = "twice" => mResult = mName

\* the second call has run on a result with a blank inside, left by a name
\* in which punctuation stood between two blanks
C24_Witness ==
    /\ mPc = "twice"
    /\ mName = <<"a", " ", "b">>
    /\ mResult = <<"a", " ", "b">>

\* a whitespace-only name has been normalized to the empty string
C24_WitnessBlank ==
    /\ mPc = "once"
    /\ mName = <<" ", "\t">>
    /\ mResult = <<>>

----------------------------------------------------------------------------
(* Claims about the counts of the product-catalog view *)

\* the transactions outside the test bucket
OutsideTestBucket ==
    {id \in DOMAIN txns :
        txns[id].show_id # None \/ txns[id].sale_type = "marketplace"}

\* the sum of the "sales" figures the view reports for the entries in S
RECURSIVE SalesTotal(_)
SalesTotal(S) ==
    IF S = {} THEN 0
    ELSE LET cid == CHOOSE c \in S : TRUE
         IN  view.sales[cid] + SalesTotal(S \ {cid})

\* C26: in the product-catalog view the per-entry sales counts sum to at
\* most the number of in-scope transactions, and to exactly that number when
\* a catch_all entry exists; every in-scope transaction is then resolved to
\* one entry, and a transaction of the test bucket is counted nowhere.
C26_SalesCountsPartition ==
    view.computed =>
        /\ DOMAIN view.sales = DOMAIN catalog
        /\ SalesTotal(DOMAIN catalog) <= Cardinality(OutsideTestBucket)
        /\ CatchAllEntries # {} =>
              /\ SalesTotal(DOMAIN catalog) = Cardinality(OutsideTestBucket)
              /\ \A id \in OutsideTestBucket :
                    \E cid \in DOMAIN catalog : view.matches[id] = Some(cid)
        /\ \A id \in DOMAIN txns \ OutsideTestBucket :
              id \notin DOMAIN view.matches

\* a view over a catalog with a catch_all entry and a second entry, one
\* in-scope transaction and one transaction of the test bucket: the counts
\* sum to one
C26_Witness ==
    /\ view.computed
    /\ CatchAllEntries # {}
    /\ Cardinality(DOMAIN catalog) = 2
    /\ OutsideTestBucket = {1}
    /\ SalesTotal(DOMAIN catalog) = 1

\* a view over a catalog without catch_all in which an in-scope transaction
\* is counted under no entry
C26_WitnessBelow ==
    /\ view.computed
    /\ CatchAllEntries = {}
    /\ Cardinality(DOMAIN catalog) = 2
    /\ SalesTotal(DOMAIN catalog) < Cardinality(OutsideTestBucket)

----------------------------------------------------------------------------
(* Claims about catalog entries without include keywords *)

\* the entries that are not catch_all and have an empty include_keywords list
KeywordlessEntries ==
    {cid \in DOMAIN catalog :
        /\ catalog[cid].rule_type # "catch_all"
        /\ catalog[cid].include_keywords = <<>>}

\* C30: an entry that is not catch_all and has an empty include_keywords
\* list matches no transaction in the keyword pass: in the product-catalog
\* view only transactions manually mapped to it are counted under it.
C30_KeywordlessEntryMatchesNothing ==
    view.computed =>
        \A cid \in KeywordlessEntries : \A id \in CountedUnder(cid) :
            /\ txns[id].is_mapped
            /\ txns[id].catalog_item_id = Some(cid)

----------------------------------------------------------------------------
(* Claims about the mapped flag *)

\* the in-scope transactions whose catalog_item_id names an entry of the
\* catalog
MappedToExistingEntry ==
    {id \in OutsideTestBucket :
        /\ txns[id].catalog_item_id # None
        /\ Val(txns[id].catalog_item_id) \in DOMAIN catalog}

\* C29: after any sequence of remaps and catalog-entry deletes, every
\* transaction with is_mapped = true has a catalog_item_id that references
\* an existing catalog entry, and the mapped count of mapping-status counts
\* no transaction whose entry is gone.
C29_MappedFlagHasEntry ==
    /\ \A id \in DOMAIN txns :
          txns[id].is_mapped =>
              /\ txns[id].catalog_item_id # None
              /\ Val(txns[id].catalog_item_id) \in DOMAIN catalog
    /\ get_mapping_status(txns).mapped <= Cardinality(MappedToExistingEntry)

----------------------------------------------------------------------------
(* Claims about deleting a show *)

\* C22: delete_show deletes the show and all of its transactions: after it
\* no transaction that was attached to the show exists (none survives with
\* a null or dangling show_id), and the transactions of other shows and the
\* marketplace transactions are unchanged.
C22_DeleteShowDeletesTransactions ==
    [][(last'.op = "delete_show" /\ last'.status = 204) =>
          LET show_id == last'.args[1]
          IN  /\ show_id \notin DOMAIN shows'
              /\ \A id \in DOMAIN txns :
                    IF txns[id].show_id = Some(show_id)
                    THEN id \notin DOMAIN txns'
                    ELSE id \in DOMAIN txns' /\ txns'[id] = txns[id]]_vars

----------------------------------------------------------------------------
(* Claims about access to the endpoints *)

\* the tokens of an active stored user, and those of an admin
AuthenticatedTokens == {"1453", "jwt1", "jwt2"}
AdminTokens == {"1453", "jwt1"}

\* C25: a read (GET) endpoint rejects a request without a valid token, a
\* write endpoint rejects a caller who is not an authenticated admin, and a
\* rejected request changes no stored state.
C25_EndpointsGated ==
    [][/\ (/\ last'.op \in {"get_product_catalog", "list_transactions"}
           /\ last'.args[1] \notin AuthenticatedTokens) =>
               last'.status \in {401, 403}
       /\ (/\ last'.op \in {"delete_rule", "remap"}
           /\ last'.args[1] \notin AdminTokens) =>
               last'.status \in {401, 403}
       /\ last'.status \in {401, 403} =>
               /\ txns' = txns
               /\ rules' = rules
               /\ shows' = shows
               /\ catalog' = catalog]_vars

----------------------------------------------------------------------------
(* Claims about bulk requests that fail *)

\* C27: when save-product-COGS or mark-mapped aborts partway, nothing of
\* the request is persisted (not the rule, no transaction's COGS or mapping
\* fields, no show total): the stored state after the failed request equals
\* the stored state before it.
C27_FailedBulkPersistsNothing ==
    [][(/\ last'.op \in {"save_product_cogs", "mark_mapped"}
        /\ last'.status = 500) =>
           /\ rules' = rules
           /\ txns' = txns
           /\ shows' = shows
           /\ catalog' = catalog]_vars

\* a save-product-COGS that had written the rule and a transaction on its
\* session when the show query raised
C27_Witness ==
    /\ last.op = "save_product_cogs"
    /\ last.status = 500
    /\ last.args[4] = "show_query"
    /\ last.touched # {}

\* a mark-mapped that had written a transaction on its session when the
\* loop body raised
C27_WitnessMarkMapped ==
    /\ last.op = "mark_mapped"
    /\ last.status = 500
    /\ last.touched # {}

----------------------------------------------------------------------------
(* Claims about the result of a bulk save *)

\* C21: a bulk save-product-COGS run gives the COGS to every matching
\* transaction and persists them, and its result reports counts of matched,
\* skipped and errored items and the error messages instead of a bare
\* success flag.
C21_SaveReportsCounts ==
    [][(last'.op = "save_product_cogs" /\ last'.status = 200) =>
          /\ \A id \in DOMAIN txns :
                (/\ txns[id].show_id # None \/ txns[id].sale_type = "marketplace"
                 /\ HasKeyword(last'.args[3], txns[id].item_name)) =>
                    /\ txns'[id].cogs = Some(last'.args[2] * txns[id].quantity)
                    /\ txns'[id].matched_cogs_rule_id # None
          /\ {"matched", "skipped", "errored", "errors"} \subseteq
                DOMAIN last'.result]_vars

\* the first half of C21 alone: every matching in-scope transaction carries
\* the COGS of the request after a served save
C21_MatchingReceiveCogs ==
    [][(last'.op = "save_product_cogs" /\ last'.status = 200) =>
          \A id \in DOMAIN txns :
                (/\ txns[id].show_id # None \/ txns[id].sale_type = "marketplace"
                 /\ HasKeyword(last'.args[3], txns[id].item_name)) =>
                    /\ txns'[id].cogs = Some(last'.args[2] * txns[id].quantity)
                    /\ txns'[id].matched_cogs_rule_id # None]_vars

----------------------------------------------------------------------------
(* Claims about the singles views *)

\* the last request remapped a transaction that the unmapped-singles view
\* listed to a specific singles entry
RemappedFromUnmapped ==
    /\ last.op = "remap"
    /\ "unmapped" \in DOMAIN last.before
    /\ last.args[1] \in last.before.unmapped
    /\ catalog[last.args[2]].category = "Singles"
    /\ catalog[last.args[2]].name # <<"Single Cards">>

\* C23: after a transaction listed by the unmapped-singles view is remapped
\* to a specific singles entry S, the unmapped-singles view no longer lists
\* it and the singles view counts it under S, whatever keywords its item
\* name contains.
C23_ManualMappingStickyInSingles ==
    RemappedFromUnmapped =>
        /\ "unmapped" \in DOMAIN view => last.args[1] \notin view.unmapped
        /\ "matches" \in DOMAIN view /\ view.matches # <<>> =>
              view.matches[last.args[1]] = Some(last.args[2])

----------------------------------------------------------------------------
(* Claims about concurrent bulk saves *)

\* the stored state after request first and then request second, each run
\* from its first to its last statement, from the state the two found
SerialOutcome(first, second) ==
    SaveRun(SaveRun(last.before, sessions[first].product_name,
                    sessions[first].cogs, sessions[first].keywords),
            sessions[second].product_name, sessions[second].cogs,
            sessions[second].keywords)

\* C28: when two save-product-COGS requests with different costs have both
\* completed, the stored state is the one that running them one after the
\* other in some order produces, and every show of a matched transaction
\* has a total_cogs equal to the sum of its transactions' cogs.
C28_ConcurrentSavesSerializable ==
    (sessions # <<>> /\ \A s \in DOMAIN sessions : sessions[s].pc = "done") =>
        /\ [rules |-> rules, txns |-> txns, shows |-> shows]
              \in {SerialOutcome(1, 2), SerialOutcome(2, 1)}
        /\ \A s \in DOMAIN sessions :
              \A sid \in AffectedShowIds(txns, sessions[s].keywords) :
                 sid \in DOMAIN shows =>
                    shows[sid].total_cogs =
                       SumOver(txns, ShowTransactionIds(txns, sid), "cogs")

====
